---- MODULE Spec2Model ----
(***************************************************************************)
(* A model of the ssith crate: the subset-sum MPC-in-the-head prover, the  *)
(* challenge-sampling verifier and the interactive harness that runs them  *)
(* over two channels.                                                      *)
(*                                                                         *)
(* Data representation.  A u8 is an integer in 0..255.  A u64 is the       *)
(* sequence of its 8 bytes, least significant first (what to_le_bytes      *)
(* returns), so that the arithmetic keeps its 64-bit width.  A usize that  *)
(* is a length or an index is a plain integer.  A block (key, seed,        *)
(* opening) is a sequence of 16 bytes.  A SHA3 digest is symbolic: the     *)
(* pair <<stream, len>> stands for the first len bytes of the digest of    *)
(* the absorbed stream, so that two digests are equal exactly when the     *)
(* absorbed streams are (the hash is treated as collision-free).           *)
(***************************************************************************)
EXTENDS Integers, Sequences, FiniteSets, TLC

(***************************************************************************)
(* consts.rs                                                               *)
(***************************************************************************)
KEY_SIZE == 16
BLOCK_SIZE == 16
OPENING_SIZE == 16
DIGEST_SIZE == 32

PREFIX_H1_DELTA == <<100, 101, 108, 116, 97, 95, 114, 115>>
PREFIX_H1_COM == <<99, 111, 109, 109, 105, 116, 109, 101>>
PREFIX_H2 == <<104, 49, 115, 45, 45, 45, 45, 45>>
PREFIX_H3 == <<104, 51, 45, 45, 45, 45, 45, 45>>
PREFIX_H4 == <<104, 52, 45, 45, 45, 45, 45, 45>>
PREFIX_WITNESS == <<119, 105, 116, 110, 101, 115, 115, 45>>
PREFIX_INSTANCE == <<105, 110, 115, 116, 97, 110, 99, 101>>

(***************************************************************************)
(* Machine integers.                                                       *)
(***************************************************************************)
U64_BYTES == 8
U64_BITS == 64

Byte == 0..255

\* 2^k for 0 <= k <= 8
Pow2(k) ==
    CASE k = 0 -> 1 [] k = 1 -> 2 [] k = 2 -> 4 [] k = 3 -> 8 [] k = 4 -> 16
      [] k = 5 -> 32 [] k = 6 -> 64 [] k = 7 -> 128 [] OTHER -> 256

\* `x as u64` for a u8 or a small usize x (x < 2^24): its 8 bytes, low first
ToU64(x) ==
    [i \in 1..U64_BYTES |->
        IF i = 1 THEN x % 256
        ELSE IF i = 2 THEN (x \div 256) % 256
        ELSE IF i = 3 THEN (x \div 65536) % 256
        ELSE 0]

\* usize::to_le_bytes on the 64-bit target
UsizeLeBytes(x) == ToU64(x)

U64Zero == ToU64(0)
U64One == ToU64(1)
U64Max == [i \in 1..U64_BYTES |-> 255]
U64Top == [i \in 1..U64_BYTES |-> IF i = U64_BYTES THEN 128 ELSE 0]

RECURSIVE AddCarry(_, _, _)
\* the carry out of byte i when adding a and b
AddCarry(a, b, i) ==
    IF i = 0 THEN 0 ELSE (a[i] + b[i] + AddCarry(a, b, i - 1)) \div 256

\* u64::wrapping_add
wrapping_add(a, b) ==
    [i \in 1..U64_BYTES |-> (a[i] + b[i] + AddCarry(a, b, i - 1)) % 256]

AddOverflows(a, b) == AddCarry(a, b, U64_BYTES) = 1

RECURSIVE SubBorrow(_, _, _)
\* the borrow out of byte i when subtracting b from a
SubBorrow(a, b, i) ==
    IF i = 0 THEN 0
    ELSE IF a[i] - b[i] - SubBorrow(a, b, i - 1) < 0 THEN 1 ELSE 0

\* u64::wrapping_sub
wrapping_sub(a, b) ==
    [i \in 1..U64_BYTES |-> (a[i] - b[i] - SubBorrow(a, b, i - 1) + 256) % 256]

\* one partial product of the schoolbook multiplication, column k
MulTerm(a, b, i, k) ==
    IF k + 1 - i >= 1 /\ k + 1 - i <= U64_BYTES THEN a[i] * b[k + 1 - i] ELSE 0

MulColumn(a, b, k) ==
    MulTerm(a, b, 1, k) + MulTerm(a, b, 2, k) + MulTerm(a, b, 3, k)
    + MulTerm(a, b, 4, k) + MulTerm(a, b, 5, k) + MulTerm(a, b, 6, k)
    + MulTerm(a, b, 7, k) + MulTerm(a, b, 8, k)

RECURSIVE MulBytes(_, _, _, _)
\* the 16 bytes of the full 128-bit product, low first
MulBytes(a, b, k, carry) ==
    IF k > 2 * U64_BYTES THEN <<>>
    ELSE LET s == MulColumn(a, b, k) + carry
         IN  <<s % 256>> \o MulBytes(a, b, k + 1, s \div 256)

\* u64::wrapping_mul (a factor of 0 or 1 needs no long multiplication)
wrapping_mul(a, b) ==
    IF a = U64Zero \/ b = U64Zero THEN U64Zero
    ELSE IF a = U64One THEN b
    ELSE IF b = U64One THEN a
    ELSE SubSeq(MulBytes(a, b, 1, 0), 1, U64_BYTES)

\* the product does not fit 64 bits: a * b panics under overflow checks
MulOverflows(a, b) ==
    IF a = U64Zero \/ b = U64Zero \/ a = U64One \/ b = U64One THEN FALSE
    ELSE LET p == MulBytes(a, b, 1, 0)
         IN  \E k \in (U64_BYTES + 1)..(2 * U64_BYTES) : p[k] # 0

\* x % 2^k for a u64 x and 0 <= k < 64
ModPow2(x, k) ==
    [i \in 1..U64_BYTES |->
        IF 8 * i <= k THEN x[i]
        ELSE IF 8 * (i - 1) >= k THEN 0
        ELSE x[i] % Pow2(k - 8 * (i - 1))]

\* a ^ b on u8
Xor8(a, b) ==
    LET bit(k) == ((a \div Pow2(k)) + (b \div Pow2(k))) % 2
    IN  bit(0) + 2 * bit(1) + 4 * bit(2) + 8 * bit(3) + 16 * bit(4)
        + 32 * bit(5) + 64 * bit(6) + 128 * bit(7)

(***************************************************************************)
(* The build profile decides what an arithmetic overflow does: a build     *)
(* with overflow checks (the default for `cargo test` and debug builds)    *)
(* panics, a build without them (the default release build) wraps.         *)
(***************************************************************************)
Builds == {"debug", "release"}

VARIABLES
    build,      \* the build profile of the crate
    aes,        \* the AES-128-CTR keystream: <<key, iv, block index>> -> block
    prover,     \* the Prover (witness, instance, mseed, iv, param)
    pstate,     \* the ProverState that step1 returned
    op,         \* the operation applied last
    args,       \* its arguments
    ret,        \* what it returned
    verifier,   \* the Verifier (param)
    setup,      \* who runs: both parties, or one party and a test driver
    pc_p,       \* where IProver::blocking_run stands
    pc_v,       \* where IVerifier::blocking_run stands
    chan_p,     \* the channel of ProverMsg, prover to verifier
    chan_v,     \* the channel of VerifierMsg, verifier to prover
    ends,       \* which channel endpoints are not dropped yet
    res_p,      \* what IProver::blocking_run returned
    res_v,      \* what IVerifier::blocking_run returned
    p_out,      \* the prover's (h_prime, mseeds), between step2 and its send
    v_in,       \* what the verifier received so far
    trace,      \* the sends and receives of the two parties so far, in order
    dsent,      \* how many messages the test driver sent
    writer_chan,    \* io.rs: the channel writer_s -> writer_r
    reader_chan,    \* the channel reader_s -> reader_r
    shutdown_chan,  \* the channel shutdown_s -> shutdown_r
    held,           \* which of the returned endpoints the caller still holds
    stream_out,     \* the bytes written to the stream so far
    stream_in,      \* the bytes the peer wrote that were not read yet
    stream_shut,    \* shutdown(Shutdown::Both) was called on the stream
    peer_closed,    \* the peer closed its end of the connection
    peer_wrote,     \* what the peer wrote so far, write by write
    pc_reader,      \* where the reader thread stands
    reader_msg,     \* the message the reader thread is about to forward
    res_reader,     \* what the reader thread returned
    pc_wrap,        \* where the thread that runs select_loop stands
    res_select,     \* what select_loop returned
    res_hdl,        \* what the returned JoinHandle yields
    app_trace       \* the caller's sends and shutdown signals so far, in order

run_vars ==
    <<setup, pc_p, pc_v, chan_p, chan_v, ends, res_p, res_v, p_out, v_in,
      trace, dsent>>

wrap_vars ==
    <<writer_chan, reader_chan, shutdown_chan, held, stream_out, stream_in,
      stream_shut, peer_closed, peer_wrote, pc_reader, reader_msg,
      res_reader, pc_wrap, res_select, res_hdl, app_trace>>

vars ==
    <<build, aes, prover, pstate, op, args, ret, verifier, run_vars,
      wrap_vars>>

\* Result<T, InternalError>, and the panic that unwinds out of a call
Ok(v) == [tag |-> "Ok", val |-> v]
Err(e) == [tag |-> "Err", val |-> e]
Panic == [tag |-> "Panic", val |-> "panic"]
None == [tag |-> "None", val |-> "none"]
Some(v) == [tag |-> "Some", val |-> v]

(***************************************************************************)
(* primitives.rs: hashing.  A stream is what a Sha3_256 hasher absorbed:   *)
(* one element <<b>> per plain byte b, one element <<stream, len>> per     *)
(* digest (or truncated digest) fed to it.                                 *)
(***************************************************************************)
Lift(bytes) == [i \in 1..Len(bytes) |-> <<bytes[i]>>]

RECURSIVE Concat(_)
Concat(seqs) == IF seqs = <<>> THEN <<>> ELSE Head(seqs) \o Concat(Tail(seqs))

\* each u64 of xs as its 8 little-endian bytes
LeBytesAll(xs) == Concat([i \in 1..Len(xs) |-> Lift(xs[i])])

\* Sha3_256::new(), update(..)*, finalize()
Sha3_256(stream) == <<stream, DIGEST_SIZE>>

\* result.as_slice()[..n]
Truncated(digest, n) == <<digest[1], n>>

hash1(delta_rs, coms) ==
    Sha3_256(Lift(PREFIX_H1_DELTA)
             \o Lift(UsizeLeBytes(Len(delta_rs)))
             \o LeBytesAll(delta_rs)
             \o Lift(PREFIX_H1_COM)
             \o Lift(UsizeLeBytes(Len(coms)))
             \o coms)

hash2(h1s) ==
    Sha3_256(Lift(PREFIX_H2) \o Lift(UsizeLeBytes(Len(h1s))) \o h1s)

hash3(rs_tilde, t_shares) ==
    Sha3_256(Lift(PREFIX_H3)
             \o Lift(UsizeLeBytes(Len(rs_tilde)))
             \o Lift(rs_tilde)
             \o LeBytesAll(t_shares))

hash4(h_primes) == Sha3_256(Lift(PREFIX_H4) \o h_primes)

\* a commitment that leaves the opening out of the hash
commit_ignores_opening(value, opening) == Sha3_256(Lift(value))

\* Commitment::new(Sha3(opening.inner || value))
commit(value, opening) == Sha3_256(Lift(opening) \o Lift(value))

verify(value, opening, commitment) == commit(value, opening) = commitment

(***************************************************************************)
(* primitives.rs: the AES-128-CTR generators.  The cipher itself is the    *)
(* table aes, an arbitrary function fixed when a run starts.               *)
(***************************************************************************)
prg_aes_ctr(seed, iv, block_count) ==
    [i \in 1..block_count |-> aes[<<seed, iv, i - 1>>]]

prg_u64(seed, iv, n) ==
    LET u64_per_block == BLOCK_SIZE \div U64_BYTES
        block_count == (n + u64_per_block - 1) \div u64_per_block
        blocks == prg_aes_ctr(seed, iv, block_count)
    IN  [k \in 1..n |->
            LET i == (k - 1) \div u64_per_block
                j == (k - 1) % u64_per_block
            IN  SubSeq(blocks[i + 1], j * U64_BYTES + 1, j * U64_BYTES + 8)]

\* a bit order that starts from the most significant bit
BitOfMsbFirst(b, shift) == (b \div Pow2(7 - shift)) % 2

\* (b >> shift) & 1
BitOf(b, shift) == (b \div Pow2(shift)) % 2

RECURSIVE prg_bin_shifts(_, _, _, _)
\* for shift in 0u8..8 { out[i] = (b >> shift) & 1; i += 1;
\*                       if i == n { return out; } }
\* i, the count of bits written, is Len(out)
prg_bin_shifts(b, shift, n, out) ==
    IF shift >= 8 THEN [out |-> out, returned |-> FALSE]
    ELSE LET written == Append(out, BitOf(b, shift))
         IN  IF Len(written) = n THEN [out |-> written, returned |-> TRUE]
             ELSE prg_bin_shifts(b, shift + 1, n, written)

RECURSIVE prg_bin_bytes(_, _, _, _)
\* for b in block { .. }
prg_bin_bytes(block, k, n, out) ==
    IF k > Len(block) THEN [out |-> out, returned |-> FALSE]
    ELSE LET r == prg_bin_shifts(block[k], 0, n, out)
         IN  IF r.returned THEN r ELSE prg_bin_bytes(block, k + 1, n, r.out)

RECURSIVE prg_bin_loop(_, _, _, _)
\* for block in blocks { .. }; falling out of it reaches unreachable!()
prg_bin_loop(blocks, j, n, out) ==
    IF j > Len(blocks) THEN [out |-> out, returned |-> FALSE]
    ELSE LET r == prg_bin_bytes(blocks[j], 1, n, out)
         IN  IF r.returned THEN r ELSE prg_bin_loop(blocks, j + 1, n, r.out)

prg_bin_run(seed, iv, n) ==
    LET block_count == (n \div BLOCK_SIZE) + 1
        blocks == prg_aes_ctr(seed, iv, block_count)
    IN  prg_bin_loop(blocks, 1, n, <<>>)

\* assert!(n >= 1) fails, or unreachable!() is reached
prg_bin_panics(seed, iv, n) == n < 1 \/ ~prg_bin_run(seed, iv, n).returned

\* the vector prg_bin returns (n >= 1)
prg_bin(seed, iv, n) == prg_bin_run(seed, iv, n).out

\* a doubling that takes the two blocks after the first two
prg_double_later_blocks(seed, iv) ==
    LET out == prg_aes_ctr(seed, iv, 4) IN <<out[3], out[4]>>

prg_double(seed, iv) ==
    LET out == prg_aes_ctr(seed, iv, 2) IN <<out[1], out[2]>>

RECURSIVE prg_tree_keeping_loop(_, _, _, _)
prg_tree_keeping_loop(out, pos, iv, n) ==
    IF Len(out) >= n THEN out
    ELSE LET lr == prg_double(out[pos], iv)
         IN  prg_tree_keeping_loop(out \o <<lr[1], lr[2]>>, pos + 1, iv, n)

\* a tree expansion that leaves the expanded node in the queue
prg_tree_keeps_parent(seed, iv, n) ==
    IF n = 0 THEN <<>> ELSE prg_tree_keeping_loop(<<seed>>, 1, iv, n)

RECURSIVE prg_tree_loop(_, _, _, _)
prg_tree_loop(out, seed, iv, n) ==
    IF Len(out) >= n THEN out
    ELSE IF out = <<>> THEN prg_tree_loop(<<seed>>, seed, iv, n)
    ELSE LET new_seed == Head(out)
             lr == prg_double(new_seed, iv)
         IN  prg_tree_loop(Tail(out) \o <<lr[1], lr[2]>>, seed, iv, n)

prg_tree(seed, iv, n) == prg_tree_loop(<<>>, seed, iv, n)

(***************************************************************************)
(* lib.rs: parameters, witness, instance.  Param is the record             *)
(* (ssp_dimension n, party_count N, cnc_param M, rep_param tau,            *)
(* abort_param log A); Witness is its byte vector; Instance is             *)
(* [weights, t].                                                           *)
(***************************************************************************)
Min(a, b) == IF a <= b THEN a ELSE b

OverflowChecks == build = "debug"

\* the zipped products (*witness as u64) * weight, wrapped
Products(witness, weights) ==
    [i \in 1..Min(Len(witness), Len(weights)) |->
        wrapping_mul(ToU64(witness[i]), weights[i])]

ProductOverflows(witness, weights) ==
    \E i \in 1..Min(Len(witness), Len(weights)) :
        MulOverflows(ToU64(witness[i]), weights[i])

RECURSIVE FoldWrappingAdd(_, _)
\* .fold(0u64, |acc, s| acc.wrapping_add(s))
FoldWrappingAdd(acc, xs) ==
    IF xs = <<>> THEN acc
    ELSE FoldWrappingAdd(wrapping_add(acc, Head(xs)), Tail(xs))

sanity_check(witness, instance, param) ==
    IF Len(witness) # param.ssp_dimension THEN Err("BadWitnessLength")
    ELSE IF Len(instance.weights) # param.ssp_dimension
    THEN Err("BadInstanceLength")
    ELSE IF param.abort_param >= 64 THEN Err("BadAbortParam")
    ELSE IF OverflowChecks /\ ProductOverflows(witness, instance.weights)
    THEN Panic
    ELSE IF FoldWrappingAdd(U64Zero, Products(witness, instance.weights))
            # instance.t
    THEN Err("BadWitnessOrInstance")
    ELSE Ok(<<>>)

\* rng is what the generator yields to this call: rng.bytes to the
\* fill_bytes of the witness, rng.words to the next_u64 calls
new_witness_instance(rng, param) ==
    LET w_vec == [i \in 1..param.ssp_dimension |-> rng.bytes[i] % 2]
        weights == [i \in 1..param.ssp_dimension |-> rng.words[i]]
        t == FoldWrappingAdd(U64Zero, Products(w_vec, weights))
    IN  [witness |-> w_vec, instance |-> [weights |-> weights, t |-> t]]

hash_witness_instance(witness, instance) ==
    Truncated(Sha3_256(Lift(PREFIX_WITNESS)
                       \o Lift(UsizeLeBytes(Len(witness)))
                       \o Lift(witness)
                       \o Lift(PREFIX_INSTANCE)
                       \o Lift(UsizeLeBytes(Len(instance.weights)))
                       \o LeBytesAll(instance.weights)
                       \o Lift(instance.t)),
              BLOCK_SIZE)

(***************************************************************************)
(* prover.rs: the constructors.                                            *)
(***************************************************************************)
from_witness_instance_unchecked(witness, instance, mseed, param) ==
    [witness |-> witness, instance |-> instance, mseed |-> mseed,
     iv |-> hash_witness_instance(witness, instance), param |-> param]

from_witness_instance(witness, instance, mseed, param) ==
    LET checked == sanity_check(witness, instance, param)
    IN  IF checked.tag = "Ok"
        THEN Ok(from_witness_instance_unchecked(witness, instance, mseed, param))
        ELSE checked

\* Prover::new; rng.mseed is what the generator yields to the last fill_bytes
ProverNew(rng, param) ==
    LET wi == new_witness_instance(rng, param)
    IN  from_witness_instance_unchecked(wi.witness, wi.instance, rng.mseed, param)

(***************************************************************************)
(* prover.rs: step1.                                                       *)
(***************************************************************************)
\* x % (1 << abort_param): without overflow checks the shift count is
\* taken modulo 64
ShareReduce(x, abort_param) == ModPow2(x, abort_param % U64_BITS)

RECURSIVE FoldShares(_, _)
\* r_shares.iter().fold(vec![0; n], |acc, x| zip(acc, x).map(a + b)), wrapped
FoldShares(acc, r_shares) ==
    IF r_shares = <<>> THEN acc
    ELSE FoldShares([k \in 1..Min(Len(acc), Len(Head(r_shares))) |->
                        wrapping_add(acc[k], Head(r_shares)[k])],
                    Tail(r_shares))

RECURSIVE FoldSharesOverflows(_, _)
FoldSharesOverflows(acc, r_shares) ==
    IF r_shares = <<>> THEN FALSE
    ELSE \/ \E k \in 1..Min(Len(acc), Len(Head(r_shares))) :
                AddOverflows(acc[k], Head(r_shares)[k])
         \/ FoldSharesOverflows(
                [k \in 1..Min(Len(acc), Len(Head(r_shares))) |->
                    wrapping_add(acc[k], Head(r_shares)[k])],
                Tail(r_shares))

\* the first statements of the body of step1's loop, as step1_inner has
\* them: the mask bits rs and the tree of 2N blocks, chunked into (seed,
\* rho) pairs
step1_draws(self, mseed_inner) ==
    LET rs == prg_bin(mseed_inner, self.iv, self.param.ssp_dimension)
        seeds_rhos == prg_tree(mseed_inner, self.iv, self.param.party_count * 2)
        pairs == Len(seeds_rhos) \div 2
    IN  [rs |-> rs,
         seeds |-> [i \in 1..pairs |-> seeds_rhos[2 * i - 1]],
         rhos |-> [i \in 1..pairs |-> seeds_rhos[2 * i]]]

\* the body of step1's loop: the record of one repetition
step1_inner(self, mseed_inner) ==
    LET n == self.param.ssp_dimension
        rs == prg_bin(mseed_inner, self.iv, n)
        seeds_rhos == prg_tree(mseed_inner, self.iv, self.param.party_count * 2)
        pairs == Len(seeds_rhos) \div 2
        seeds == [i \in 1..pairs |-> seeds_rhos[2 * i - 1]]
        rhos == [i \in 1..pairs |-> seeds_rhos[2 * i]]
        r_shares == [i \in 1..pairs |->
                        LET words == prg_u64(seeds[i], self.iv, n)
                        IN  [k \in 1..n |->
                                ShareReduce(words[k], self.param.abort_param)]]
        coms == [i \in 1..pairs |-> commit(seeds[i], rhos[i])]
        r_shares_sum == FoldShares([k \in 1..n |-> U64Zero], r_shares)
        delta_rs == [k \in 1..Min(Len(rs), Len(r_shares_sum)) |->
                        wrapping_sub(ToU64(rs[k]), r_shares_sum[k])]
    IN  [mseed_inner |-> mseed_inner, rs |-> rs, seeds |-> seeds,
         rhos |-> rhos, r_shares |-> r_shares, coms |-> coms,
         r_shares_sum |-> r_shares_sum, delta_rs |-> delta_rs,
         h1 |-> hash1(delta_rs, coms)]

\* a step1 whose h leaves the first repetition's h1 out
step1_skips_first_h1(self) ==
    LET mseeds_inner == prg_tree(self.mseed, self.iv, self.param.cnc_param)
        step1_state == [e \in 1..Len(mseeds_inner) |->
                            step1_inner(self, mseeds_inner[e])]
        h1s == [e \in 1..Len(step1_state) |-> step1_state[e].h1]
    IN  [step1_state |-> step1_state, h |-> hash2(Tail(h1s))]

step1(self) ==
    LET mseeds_inner == prg_tree(self.mseed, self.iv, self.param.cnc_param)
        step1_state == [e \in 1..Len(mseeds_inner) |->
                            step1_inner(self, mseeds_inner[e])]
        h1s == [e \in 1..Len(step1_state) |-> step1_state[e].h1]
    IN  [step1_state |-> step1_state, h |-> hash2(h1s)]

\* step1 does not return: the assertion of prg_bin fails (any build), or
\* an overflow check does (the shift 1 << abort_param, the share sums)
step1_panics(self) ==
    /\ self.param.cnc_param >= 1
    /\ \/ self.param.ssp_dimension < 1
       \/ /\ OverflowChecks
          /\ self.param.party_count >= 1
          /\ self.param.abort_param >= U64_BITS
       \/ /\ OverflowChecks
          /\ \E e \in 1..self.param.cnc_param :
                FoldSharesOverflows(
                    [k \in 1..self.param.ssp_dimension |-> U64Zero],
                    step1(self).step1_state[e].r_shares)

(***************************************************************************)
(* prover.rs: step2.  Challenge indices are usize values, counted from 0.  *)
(***************************************************************************)
\* 1u8 - x_tilde, wrapped
OneMinusU8(x_tilde) == (1 - x_tilde + 256) % 256

\* u64::from(1u8 - x_tilde) * r_share + u64::from(*x_tilde) * (1 - r_share)
x_share_of(x_tilde, r_share) ==
    wrapping_add(wrapping_mul(ToU64(OneMinusU8(x_tilde)), r_share),
                 wrapping_mul(ToU64(x_tilde), wrapping_sub(U64One, r_share)))

x_share_overflows(x_tilde, r_share) ==
    \/ x_tilde > 1
    \/ MulOverflows(ToU64(OneMinusU8(x_tilde)), r_share)
    \/ MulOverflows(ToU64(x_tilde), wrapping_sub(U64One, r_share))
    \/ AddOverflows(wrapping_mul(ToU64(OneMinusU8(x_tilde)), r_share),
                    wrapping_mul(ToU64(x_tilde), wrapping_sub(U64One, r_share)))

RECURSIVE SumU64(_, _)
\* Iterator::sum: the running total, wrapped
SumU64(acc, xs) ==
    IF xs = <<>> THEN acc ELSE SumU64(wrapping_add(acc, Head(xs)), Tail(xs))

RECURSIVE SumU64Overflows(_, _)
SumU64Overflows(acc, xs) ==
    IF xs = <<>> THEN FALSE
    ELSE \/ AddOverflows(acc, Head(xs))
         \/ SumU64Overflows(wrapping_add(acc, Head(xs)), Tail(xs))

xs_tilde_of(self, inner) ==
    [k \in 1..Min(Len(self.witness), Len(inner.rs)) |->
        Xor8(self.witness[k], inner.rs[k])]

x_shares_of(xs_tilde, r_share) ==
    [k \in 1..Min(Len(xs_tilde), Len(r_share)) |->
        x_share_of(xs_tilde[k], r_share[k])]

\* the products *w * x that t_share sums
t_terms_of(self, x_share) ==
    [k \in 1..Min(Len(self.instance.weights), Len(x_share)) |->
        wrapping_mul(self.instance.weights[k], x_share[k])]

t_share_of(self, xs_tilde, r_share) ==
    SumU64(U64Zero, t_terms_of(self, x_shares_of(xs_tilde, r_share)))

t_share_overflows(self, xs_tilde, r_share) ==
    LET x_share == x_shares_of(xs_tilde, r_share)
    IN  \/ \E k \in 1..Min(Len(xs_tilde), Len(r_share)) :
                x_share_overflows(xs_tilde[k], r_share[k])
        \/ \E k \in 1..Min(Len(self.instance.weights), Len(x_share)) :
                MulOverflows(self.instance.weights[k], x_share[k])
        \/ SumU64Overflows(U64Zero, t_terms_of(self, x_share))

\* the closure mapped over chalJ: h_prime of one challenged repetition
h_prime_of(self, inner) ==
    LET xs_tilde == xs_tilde_of(self, inner)
        t_shares == [i \in 1..Len(inner.r_shares) |->
                        t_share_of(self, xs_tilde, inner.r_shares[i])]
    IN  hash3(xs_tilde, t_shares)

h_prime_overflows(self, inner) ==
    \E i \in 1..Len(inner.r_shares) :
        t_share_overflows(self, xs_tilde_of(self, inner), inner.r_shares[i])

\* the repetitions whose inner seeds step2 puts in its output
RevealedIndices(state, chalJ) == chalJ

\* state.step1_state[*e] is an index into a Vec: out of range, it panics
IndexInRange(state, e) == e >= 0 /\ e < Len(state.step1_state)

step2_panics(self, state, chalJ) ==
    /\ Len(chalJ) = self.param.rep_param
    /\ \/ \E j \in 1..Len(chalJ) : ~IndexInRange(state, chalJ[j])
       \/ /\ OverflowChecks
          /\ \E j \in 1..Len(chalJ) :
                h_prime_overflows(self, state.step1_state[chalJ[j] + 1])

\* (h_prime, mseeds), what step2 computes once the length check passed
step2_output(self, state, chalJ) ==
    LET h_primes == [j \in 1..Len(chalJ) |->
                        h_prime_of(self, state.step1_state[chalJ[j] + 1])]
        h_prime == hash4(h_primes)
        revealed == RevealedIndices(state, chalJ)
        mseeds == [j \in 1..Len(revealed) |->
                      state.step1_state[revealed[j] + 1].mseed_inner]
    IN  [h_prime |-> h_prime, mseeds |-> mseeds]

\* step2 with its length check turned into "longer than rep_param"
step2_accepts_short(self, state, chalJ) ==
    IF Len(chalJ) > self.param.rep_param THEN Err("BadChallengeLength")
    ELSE Ok(step2_output(self, state, chalJ))

\* the value step2 returns when it returns
step2(self, state, chalJ) ==
    IF Len(chalJ) # self.param.rep_param THEN Err("BadChallengeLength")
    ELSE Ok(step2_output(self, state, chalJ))

(***************************************************************************)
(* verifier.rs: challenge sampling.  The generator's output is an input:   *)
(* draws[i], in 0..i, is what the shuffle draws for position i (counted    *)
(* from 0), words[k] is the k-th usize that step2 draws.                   *)
(***************************************************************************)
VerifierNew(param) == [param |-> param]

\* a swap that writes only position i
SwapOneSided(tmp, i, j) ==
    [k \in 1..Len(tmp) |-> IF k = i + 1 THEN tmp[j + 1] ELSE tmp[k]]

\* slice.swap(i, j), positions counted from 0
Swap(tmp, i, j) ==
    [k \in 1..Len(tmp) |->
        IF k = i + 1 THEN tmp[j + 1]
        ELSE IF k = j + 1 THEN tmp[i + 1]
        ELSE tmp[k]]

RECURSIVE shuffle(_, _, _)
\* SliceRandom::shuffle: for i in (1..len).rev() { swap(i, draw in 0..=i) }
shuffle(tmp, draws, i) ==
    IF i < 1 THEN tmp ELSE shuffle(Swap(tmp, i, draws[i]), draws, i - 1)

\* .take(n)
Take(xs, n) == SubSeq(xs, 1, Min(n, Len(xs)))

verifier_step1(self, draws) ==
    LET tmp == [k \in 1..self.param.cnc_param |-> k - 1]
    IN  Take(shuffle(tmp, draws, Len(tmp) - 1), self.param.rep_param)

\* the remainder by party_count = 0 panics, in every build
verifier_step2(self, words) ==
    IF self.param.rep_param >= 1 /\ self.param.party_count = 0 THEN Panic
    ELSE Ok([k \in 1..self.param.rep_param |->
                words[k] % self.param.party_count])

\* a verify that at least counts the revealed seeds
verifier_verify_counts_seeds(self, h, h_prime, mseeds) ==
    Len(mseeds) = self.param.cnc_param - self.param.rep_param

\* the stub: TODO unimplemented
verifier_verify(self, h, h_prime, mseeds) == TRUE

(***************************************************************************)
(* Bounds and input samples.                                               *)
(***************************************************************************)
MaxDim == 2         \* ssp_dimension ranges over 1..MaxDim
MaxVecLen == 2      \* supplied witness and weight vectors have 0..MaxVecLen entries
MaxIndex == 2       \* the entries of a challenge range over 0..MaxIndex

\* Seq(S) cut at length n
SeqsUpTo(S, n) == UNION {[1..k -> S] : k \in 0..n}

ZeroBlock == [i \in 1..BLOCK_SIZE |-> 0]
OnesBlock == [i \in 1..BLOCK_SIZE |-> 255]
\* the values AES blocks, keys and seeds range over
BlockSet == {ZeroBlock, OnesBlock}

\* an AES-CTR keystream for the keys of BlockSet under one iv: any function
\* that, AES being a permutation under each key, maps the counters of one
\* key to distinct blocks
AesTables(iv, block_count) ==
    {t \in [BlockSet \X {iv} \X (0..(block_count - 1)) -> BlockSet] :
        \A key \in BlockSet : \A i, j \in 0..(block_count - 1) :
            i # j => t[<<key, iv, i>>] # t[<<key, iv, j>>]}

\* the blocks of keystream one key is asked for under param
BlocksNeeded(param) ==
    LET n == param.ssp_dimension
        for_u64 == (n + 1) \div 2
        for_bin == (n \div BLOCK_SIZE) + 1
    IN  IF for_u64 > 2 /\ for_u64 >= for_bin THEN for_u64
        ELSE IF for_bin > 2 THEN for_bin ELSE 2

WitnessBytes == {0, 1, 2}
WeightSamples == {U64One, U64Top}
TargetSamples == {U64Zero, U64One, ToU64(2)}
AbortSamples == {14, 63, 64, 65}

\* what sanity_check is called with
SanityParams ==
    [ssp_dimension : 1..MaxDim, party_count : {1}, cnc_param : {2},
     rep_param : {1}, abort_param : AbortSamples]
SanityWitnesses == SeqsUpTo(WitnessBytes, MaxVecLen)
SanityInstances ==
    [weights : SeqsUpTo(WeightSamples, MaxVecLen), t : TargetSamples]

\* what a Prover is built with
ProverParams ==
    [ssp_dimension : {1}, party_count : {1, 2}, cnc_param : {2},
     rep_param : {1}, abort_param : {14, 63, 64}]
    \cup {[ssp_dimension |-> 1, party_count |-> 3, cnc_param |-> 2,
           rep_param |-> 1, abort_param |-> 63]}
RngSamples(param) ==
    [bytes : [1..param.ssp_dimension -> {0, 1}],
     words : [1..param.ssp_dimension -> {U64One, U64Max}],
     mseed : {ZeroBlock}]
SuppliedWitnesses == {<<1>>, <<2>>, <<1, 1>>}
SuppliedInstances ==
    [weights : {<<U64One>>, <<U64Top>>}, t : {U64Zero, U64One, ToU64(2)}]
SuppliedSeeds == {OnesBlock}

\* what a Verifier is built with, and what its generator yields
MaxCnc == 3         \* cnc_param ranges over 0..MaxCnc
MaxRep == 3         \* rep_param ranges over 0..MaxRep
MaxParties == 2     \* party_count ranges over 0..MaxParties
VerifierParams ==
    [ssp_dimension : {1}, party_count : 0..MaxParties, cnc_param : 0..MaxCnc,
     rep_param : 0..MaxRep, abort_param : {14}]
ShuffleDraws(param) ==
    {d \in [1..(param.cnc_param - 1) -> 0..(param.cnc_param - 1)] :
        \A i \in DOMAIN d : d[i] <= i}
UsizeSamples == {0, 1, 5, 2147483647}
UsizeDraws(param) == [1..param.rep_param -> UsizeSamples]

\* the challenges step2 is called with: up to one entry more than rep_param
Challenges(param) == SeqsUpTo(0..MaxIndex, param.rep_param + 1)

(***************************************************************************)
(* The prover's interface, one action per call.                            *)
(***************************************************************************)
\* no stream is wrapped
WrapIdle ==
    /\ writer_chan = <<>>
    /\ reader_chan = <<>>
    /\ shutdown_chan = <<>>
    /\ held = [sender |-> FALSE, receiver |-> FALSE, shutdown_sender |-> FALSE]
    /\ stream_out = <<>>
    /\ stream_in = <<>>
    /\ stream_shut = FALSE
    /\ peer_closed = FALSE
    /\ peer_wrote = <<>>
    /\ pc_reader = "idle"
    /\ reader_msg = None
    /\ res_reader = None
    /\ pc_wrap = "idle"
    /\ res_select = None
    /\ res_hdl = None
    /\ app_trace = <<>>

\* no interactive run is under way
RunIdle ==
    /\ setup = "none"
    /\ pc_p = "idle"
    /\ pc_v = "idle"
    /\ chan_p = <<>>
    /\ chan_v = <<>>
    /\ ends = [p_tx |-> FALSE, p_rx |-> FALSE, v_tx |-> FALSE, v_rx |-> FALSE]
    /\ res_p = None
    /\ res_v = None
    /\ p_out = None
    /\ v_in = None
    /\ trace = <<>>
    /\ dsent = 0

Init ==
    /\ build \in Builds
    /\ WrapIdle
    /\ aes = <<>>
    /\ prover = None
    /\ pstate = None
    /\ op = "init"
    /\ args = <<>>
    /\ ret = None
    /\ verifier = None
    /\ RunIdle

\* a call of sanity_check (a test of the crate calls it on its own)
SanityCheck(witness, instance, param) ==
    /\ op = "init"
    /\ op' = "sanity_check"
    /\ args' = [witness |-> witness, instance |-> instance, param |-> param]
    /\ ret' = sanity_check(witness, instance, param)
    /\ UNCHANGED <<wrap_vars, build, aes, prover, pstate, verifier, run_vars>>

\* Prover::new(rng, param)
New(rng, param) ==
    /\ op = "init"
    /\ op' = "new"
    /\ args' = [rng |-> rng, param |-> param]
    /\ prover' = Some(ProverNew(rng, param))
    /\ ret' = Ok(<<>>)
    /\ aes' \in AesTables(prover'.val.iv, BlocksNeeded(param))
    /\ UNCHANGED <<wrap_vars, build, pstate, verifier, run_vars>>

\* Prover::from_witness_instance(witness, instance, mseed, param)
FromWitnessInstance(witness, instance, mseed, param) ==
    /\ op = "init"
    /\ op' = "from_witness_instance"
    /\ args' = [witness |-> witness, instance |-> instance, mseed |-> mseed,
                param |-> param]
    /\ LET made == from_witness_instance(witness, instance, mseed, param)
       IN  IF made.tag = "Ok"
           THEN /\ prover' = Some(made.val)
                /\ ret' = Ok(<<>>)
                /\ aes' \in AesTables(made.val.iv, BlocksNeeded(param))
           ELSE /\ prover' = None
                /\ ret' = made
                /\ aes' = aes
    /\ UNCHANGED <<wrap_vars, build, pstate, verifier, run_vars>>

\* prover.step1()
Step1 ==
    /\ op \in {"new", "from_witness_instance"}
    /\ prover # None
    /\ op' = "step1"
    /\ args' = <<>>
    /\ IF step1_panics(prover.val)
       THEN /\ ret' = Panic
            /\ pstate' = pstate
       ELSE /\ ret' = Ok(<<>>)
            /\ pstate' = Some(step1(prover.val))
    /\ UNCHANGED <<wrap_vars, build, aes, prover, verifier, run_vars>>

\* prover.step2(&state, &chalJ) on the state step1 returned
Step2(chalJ) ==
    /\ op = "step1"
    /\ prover # None
    /\ pstate # None
    /\ op' = "step2"
    /\ args' = [chalJ |-> chalJ]
    /\ ret' = IF step2_panics(prover.val, pstate.val, chalJ) THEN Panic
              ELSE step2(prover.val, pstate.val, chalJ)
    /\ UNCHANGED <<wrap_vars, build, aes, prover, pstate, verifier, run_vars>>

CallSanityCheck ==
    \E witness \in SanityWitnesses, instance \in SanityInstances,
       param \in SanityParams :
        SanityCheck(witness, instance, param)

CallNew ==
    \E param \in ProverParams : \E rng \in RngSamples(param) : New(rng, param)

CallFromWitnessInstance ==
    \E witness \in SuppliedWitnesses, instance \in SuppliedInstances,
       mseed \in SuppliedSeeds, param \in ProverParams :
        FromWitnessInstance(witness, instance, mseed, param)

CallStep1 == Step1

CallStep2 ==
    \E chalJ \in SeqsUpTo(0..MaxIndex, MaxIndex + 1) :
        /\ prover # None
        /\ chalJ \in Challenges(prover.val.param)
        /\ Step2(chalJ)

Next ==
    \/ CallSanityCheck
    \/ CallNew
    \/ CallFromWitnessInstance
    \/ CallStep1
    \/ CallStep2

Spec == Init /\ [][Next]_vars

(***************************************************************************)
(* The verifier's interface, one action per call.                          *)
(***************************************************************************)
InitVerifier ==
    /\ build \in Builds
    /\ WrapIdle
    /\ aes = <<>>
    /\ prover = None
    /\ pstate = None
    /\ op = "init"
    /\ args = <<>>
    /\ ret = None
    /\ verifier = None
    /\ RunIdle

\* Verifier::new(param)
NewVerifier(param) ==
    /\ op = "init"
    /\ op' = "verifier_new"
    /\ args' = [param |-> param]
    /\ verifier' = Some(VerifierNew(param))
    /\ ret' = Ok(<<>>)
    /\ UNCHANGED <<wrap_vars, build, aes, prover, pstate, run_vars>>

\* verifier.step1(rng)
VerifierStep1(draws) ==
    /\ op = "verifier_new"
    /\ verifier # None
    /\ op' = "verifier_step1"
    /\ args' = [draws |-> draws]
    /\ ret' = Ok(verifier_step1(verifier.val, draws))
    /\ UNCHANGED <<wrap_vars, build, aes, prover, pstate, verifier, run_vars>>

\* verifier.step2(rng)
VerifierStep2(words) ==
    /\ op \in {"verifier_new", "verifier_step1"}
    /\ verifier # None
    /\ op' = "verifier_step2"
    /\ args' = [words |-> words]
    /\ ret' = verifier_step2(verifier.val, words)
    /\ UNCHANGED <<wrap_vars, build, aes, prover, pstate, verifier, run_vars>>

CallNewVerifier == \E param \in VerifierParams : NewVerifier(param)

CallVerifierStep1 ==
    /\ verifier # None
    /\ \E draws \in ShuffleDraws(verifier.val.param) : VerifierStep1(draws)

CallVerifierStep2 ==
    /\ verifier # None
    /\ \E words \in UsizeDraws(verifier.val.param) : VerifierStep2(words)

NextVerifier ==
    \/ CallNewVerifier
    \/ CallVerifierStep1
    \/ CallVerifierStep2

SpecVerifier == InitVerifier /\ [][NextVerifier]_vars

(***************************************************************************)
(* prover.rs, verifier.rs: the interactive parties.  Each runs              *)
(* blocking_run in a thread of its own and owns one Sender and one          *)
(* Receiver of two unbounded crossbeam channels; it drops both when         *)
(* blocking_run is over.  A send fails once the channel's receiver is       *)
(* dropped; a recv yields the oldest message, blocks while the channel is   *)
(* empty and its sender lives, and fails once it is empty and the sender    *)
(* is dropped.  In the driven setups a test holds the other party's         *)
(* endpoints, as test_iprover_wrong_chal1 does.                             *)
(***************************************************************************)
MaxDriverSends == 2     \* the test driver sends at most this many messages

\* enum ProverMsg, enum VerifierMsg; a ProverMsg carries a record
ProverMsgStep1(h) == [variant |-> "Step1", val |-> [h |-> h]]
ProverMsgStep2(out) == [variant |-> "Step2", val |-> out]
VerifierMsgStep1(chalJ) == [variant |-> "Step1", val |-> chalJ]
VerifierMsgStep2(chalL) == [variant |-> "Step2", val |-> chalL]

Event(who, act, variant) == [who |-> who, act |-> act, variant |-> variant]

\* what no action of a run changes
fixed == <<build, aes, prover, op, args, ret, verifier, setup, wrap_vars>>

RunParam ==
    [ssp_dimension |-> 1, party_count |-> 2, cnc_param |-> 2,
     rep_param |-> 1, abort_param |-> 14]
\* the verifier is built on its own: its Param may differ from the prover's
RunVerifierParams ==
    {RunParam, [RunParam EXCEPT !.rep_param = 2],
     [RunParam EXCEPT !.cnc_param = 3], [RunParam EXCEPT !.party_count = 0]}
RunRngSamples ==
    [bytes : {<<1>>}, words : {<<U64One>>, <<U64Max>>}, mseed : {ZeroBlock}]

\* what the test driver sends in place of a verifier, and of a prover
DriverVerifierMsgs ==
    {VerifierMsgStep1(<<>>), VerifierMsgStep1(<<0>>), VerifierMsgStep1(<<2>>),
     VerifierMsgStep2(<<0>>)}
DriverProverMsg(variant) ==
    IF variant = "Step1" THEN ProverMsgStep1(hash2(<<>>))
    ELSE ProverMsgStep2([h_prime |-> hash4(<<>>), mseeds |-> <<>>])

InitRun ==
    /\ build \in Builds
    /\ WrapIdle
    /\ setup \in {"run", "prove", "drive_prover", "drive_verifier"}
    /\ IF setup = "drive_verifier"
       THEN /\ prover = None
            /\ aes = <<>>
            /\ pc_p = "driver"
       ELSE /\ \E rng \in RunRngSamples :
                    prover = Some(ProverNew(rng, RunParam))
            /\ aes \in AesTables(prover.val.iv, BlocksNeeded(RunParam))
            /\ pc_p = "step1"
    /\ IF setup = "drive_prover"
       THEN /\ verifier = None
            /\ pc_v = "driver"
       ELSE IF setup = "prove"
       THEN /\ verifier = Some(VerifierNew(prover.val.param))
            /\ pc_v = "recv1"
       ELSE /\ \E param \in RunVerifierParams :
                    verifier = Some(VerifierNew(param))
            /\ pc_v = "recv1"
    /\ pstate = None
    /\ op = "init"
    /\ args = <<>>
    /\ ret = None
    /\ chan_p = <<>>
    /\ chan_v = <<>>
    /\ ends = [p_tx |-> TRUE, p_rx |-> TRUE, v_tx |-> TRUE, v_rx |-> TRUE]
    /\ res_p = None
    /\ res_v = None
    /\ p_out = None
    /\ v_in = None
    /\ trace = <<>>
    /\ dsent = 0

\* a prover whose endpoints outlive its blocking_run
ProverReturns_keeps_endpoints(result) ==
    /\ res_p' = result
    /\ pc_p' = "done"
    /\ ends' = ends

\* blocking_run is over (it returned, or it panicked and the thread
\* unwound): the IProver and its endpoints are dropped
ProverReturns(result) ==
    /\ res_p' = result
    /\ pc_p' = "done"
    /\ ends' = [ends EXCEPT !.p_tx = FALSE, !.p_rx = FALSE]

VerifierReturns(result) ==
    /\ res_v' = result
    /\ pc_v' = "done"
    /\ ends' = [ends EXCEPT !.v_tx = FALSE, !.v_rx = FALSE]

\* let state = self.prover.step1();
IProver_step1 ==
    /\ pc_p = "step1"
    /\ IF step1_panics(prover.val)
       THEN /\ ProverReturns(Panic)
            /\ pstate' = pstate
       ELSE /\ pstate' = Some(step1(prover.val))
            /\ pc_p' = "send1"
            /\ UNCHANGED <<res_p, ends>>
    /\ UNCHANGED <<fixed, pc_v, chan_p, chan_v, res_v, p_out, v_in, trace,
                   dsent>>

\* a send that succeeds whether or not the Receiver still exists
IProver_send1_ignores_drop ==
    /\ pc_p = "send1"
    /\ chan_p' = Append(chan_p, ProverMsgStep1(pstate.val.h))
    /\ trace' = Append(trace, Event("P", "send", "Step1"))
    /\ pc_p' = "recv1"
    /\ UNCHANGED <<fixed, pstate, pc_v, chan_v, ends, res_p, res_v, p_out,
                   v_in, dsent>>

\* self.tx.send(ProverMsg::Step1(state.h))?;
IProver_send1 ==
    /\ pc_p = "send1"
    /\ IF ends.v_rx
       THEN /\ chan_p' = Append(chan_p, ProverMsgStep1(pstate.val.h))
            /\ trace' = Append(trace, Event("P", "send", "Step1"))
            /\ pc_p' = "recv1"
            /\ UNCHANGED <<res_p, ends>>
       ELSE /\ ProverReturns(Err("SendErrorProverMsg"))
            /\ UNCHANGED <<chan_p, trace>>
    /\ UNCHANGED <<fixed, pstate, pc_v, chan_v, res_v, p_out, v_in, dsent>>

\* the first recv, its match on the variants in accepted, and step2
ProverRecv1(accepted) ==
    /\ pc_p = "recv1"
    /\ chan_v # <<>> \/ ~ends.v_tx
    /\ IF chan_v = <<>>
       THEN /\ ProverReturns(Err("RecvError"))
            /\ UNCHANGED <<chan_v, trace, p_out>>
       ELSE LET msg == Head(chan_v)
            IN  /\ chan_v' = Tail(chan_v)
                /\ trace' = Append(trace, Event("P", "recv", msg.variant))
                /\ IF msg.variant \notin accepted
                   THEN /\ ProverReturns(Err("ProtocolError"))
                        /\ p_out' = p_out
                   ELSE IF step2_panics(prover.val, pstate.val, msg.val)
                   THEN /\ ProverReturns(Panic)
                        /\ p_out' = p_out
                   ELSE LET r == step2(prover.val, pstate.val, msg.val)
                        IN  IF r.tag = "Err"
                            THEN /\ ProverReturns(r)
                                 /\ p_out' = p_out
                            ELSE /\ p_out' = Some(r.val)
                                 /\ pc_p' = "send2"
                                 /\ UNCHANGED <<res_p, ends>>
    /\ UNCHANGED <<fixed, pstate, pc_v, chan_p, res_v, v_in, dsent>>

\* a match that takes the list of either variant for the challenge
IProver_recv1_any_variant == ProverRecv1({"Step1", "Step2"})

\* let chalJ = match self.rx.recv()? { Step1(chalJ) => chalJ, _ => Err };
\* let (h_prime, mseeds) = self.prover.step2(&state, &chalJ)?;
IProver_recv1 == ProverRecv1({"Step1"})

\* self.tx.send(ProverMsg::Step2((h_prime, mseeds)))?;
IProver_send2 ==
    /\ pc_p = "send2"
    /\ IF ends.v_rx
       THEN /\ chan_p' = Append(chan_p, ProverMsgStep2(p_out.val))
            /\ trace' = Append(trace, Event("P", "send", "Step2"))
            /\ pc_p' = "recv2"
            /\ UNCHANGED <<res_p, ends>>
       ELSE /\ ProverReturns(Err("SendErrorProverMsg"))
            /\ UNCHANGED <<chan_p, trace>>
    /\ UNCHANGED <<fixed, pstate, pc_v, chan_v, res_v, p_out, v_in, dsent>>

\* let chalL = match self.rx.recv()? { Step2(chalL) => chalL, _ => Err };
\* self.prover.step3(&state, &chalL); Ok(())
IProver_recv2 ==
    /\ pc_p = "recv2"
    /\ chan_v # <<>> \/ ~ends.v_tx
    /\ IF chan_v = <<>>
       THEN /\ ProverReturns(Err("RecvError"))
            /\ UNCHANGED <<chan_v, trace>>
       ELSE LET msg == Head(chan_v)
            IN  /\ chan_v' = Tail(chan_v)
                /\ trace' = Append(trace, Event("P", "recv", msg.variant))
                /\ IF msg.variant # "Step2"
                   THEN ProverReturns(Err("ProtocolError"))
                   ELSE ProverReturns(Ok(<<>>))
    /\ UNCHANGED <<fixed, pstate, pc_v, chan_p, res_v, p_out, v_in, dsent>>

\* a verifier that takes h for granted and goes on to send its challenge
IVerifier_recv1_no_wait ==
    /\ pc_v = "recv1"
    /\ v_in' = Some([h |-> hash2(<<>>)])
    /\ pc_v' = "send1"
    /\ UNCHANGED <<fixed, pstate, pc_p, chan_p, chan_v, ends, res_p, res_v,
                   p_out, trace, dsent>>

\* let h = match self.rx.recv()? { Step1(h) => h, _ => Err };
IVerifier_recv1 ==
    /\ pc_v = "recv1"
    /\ chan_p # <<>> \/ ~ends.p_tx
    /\ IF chan_p = <<>>
       THEN /\ VerifierReturns(Err("RecvError"))
            /\ UNCHANGED <<chan_p, trace, v_in>>
       ELSE LET msg == Head(chan_p)
            IN  /\ chan_p' = Tail(chan_p)
                /\ trace' = Append(trace, Event("V", "recv", msg.variant))
                /\ IF msg.variant # "Step1"
                   THEN /\ VerifierReturns(Err("ProtocolError"))
                        /\ v_in' = v_in
                   ELSE /\ v_in' = Some([h |-> msg.val.h])
                        /\ pc_v' = "send1"
                        /\ UNCHANGED <<res_v, ends>>
    /\ UNCHANGED <<fixed, pstate, pc_p, chan_v, res_p, p_out, dsent>>

\* self.tx.send(VerifierMsg::Step1(self.verifier.step1(rng)))?;
IVerifier_send1(draws) ==
    /\ pc_v = "send1"
    /\ IF ends.p_rx
       THEN /\ chan_v' = Append(chan_v,
                    VerifierMsgStep1(verifier_step1(verifier.val, draws)))
            /\ trace' = Append(trace, Event("V", "send", "Step1"))
            /\ pc_v' = "recv2"
            /\ UNCHANGED <<res_v, ends>>
       ELSE /\ VerifierReturns(Err("SendErrorVerifierMsg"))
            /\ UNCHANGED <<chan_v, trace>>
    /\ UNCHANGED <<fixed, pstate, pc_p, chan_p, res_p, p_out, v_in, dsent>>

\* let (h_prime, mseeds) = match self.rx.recv()? { Step2(x) => x, _ => Err };
IVerifier_recv2 ==
    /\ pc_v = "recv2"
    /\ chan_p # <<>> \/ ~ends.p_tx
    /\ IF chan_p = <<>>
       THEN /\ VerifierReturns(Err("RecvError"))
            /\ UNCHANGED <<chan_p, trace, v_in>>
       ELSE LET msg == Head(chan_p)
            IN  /\ chan_p' = Tail(chan_p)
                /\ trace' = Append(trace, Event("V", "recv", msg.variant))
                /\ IF msg.variant # "Step2"
                   THEN /\ VerifierReturns(Err("ProtocolError"))
                        /\ v_in' = v_in
                   ELSE /\ v_in' = Some([h |-> v_in.val.h,
                                         h_prime |-> msg.val.h_prime,
                                         mseeds |-> msg.val.mseeds])
                        /\ pc_v' = "send2"
                        /\ UNCHANGED <<res_v, ends>>
    /\ UNCHANGED <<fixed, pstate, pc_p, chan_v, res_p, p_out, dsent>>

\* self.tx.send(VerifierMsg::Step2(self.verifier.step2(rng)))?;
\* Ok(self.verifier.verify(&h, &h_prime, &mseeds))
\* (NIProver::prove goes on to join the prover's thread instead)
IVerifier_send2(words) ==
    /\ pc_v = "send2"
    /\ LET chalL == verifier_step2(verifier.val, words)
       IN  IF chalL.tag = "Panic"
           THEN /\ VerifierReturns(Panic)
                /\ UNCHANGED <<chan_v, trace>>
           ELSE IF ends.p_rx
           THEN /\ chan_v' = Append(chan_v, VerifierMsgStep2(chalL.val))
                /\ trace' = Append(trace, Event("V", "send", "Step2"))
                /\ IF setup = "prove"
                   THEN /\ pc_v' = "join"
                        /\ UNCHANGED <<res_v, ends>>
                   ELSE VerifierReturns(
                            Ok(verifier_verify(verifier.val, v_in.val.h,
                                               v_in.val.h_prime,
                                               v_in.val.mseeds)))
           ELSE /\ VerifierReturns(Err("SendErrorVerifierMsg"))
                /\ UNCHANGED <<chan_v, trace>>
    /\ UNCHANGED <<fixed, pstate, pc_p, chan_p, res_p, p_out, v_in, dsent>>

\* handler.join().unwrap()?; Ok(NIProverMsg { step1: h, step2: (h_prime, mseeds) })
NIProver_join ==
    /\ setup = "prove"
    /\ pc_v = "join"
    /\ pc_p = "done"
    /\ IF res_p.tag = "Ok"
       THEN VerifierReturns(Ok([step1 |-> v_in.val.h,
                                step2 |-> [h_prime |-> v_in.val.h_prime,
                                           mseeds |-> v_in.val.mseeds]]))
       ELSE VerifierReturns(res_p)
    /\ UNCHANGED <<fixed, pstate, pc_p, chan_p, chan_v, res_p, p_out, v_in,
                   trace, dsent>>

\* the test driver, holding the endpoints of the party it stands for
DriverSendsToProver(msg) ==
    /\ setup = "drive_prover"
    /\ dsent < MaxDriverSends
    /\ ends.v_tx
    /\ ends.p_rx
    /\ chan_v' = Append(chan_v, msg)
    /\ dsent' = dsent + 1
    /\ UNCHANGED <<fixed, pstate, pc_p, pc_v, chan_p, ends, res_p, res_v,
                   p_out, v_in, trace>>

DriverSendsToVerifier(msg) ==
    /\ setup = "drive_verifier"
    /\ dsent < MaxDriverSends
    /\ ends.p_tx
    /\ ends.v_rx
    /\ chan_p' = Append(chan_p, msg)
    /\ dsent' = dsent + 1
    /\ UNCHANGED <<fixed, pstate, pc_p, pc_v, chan_v, ends, res_p, res_v,
                   p_out, v_in, trace>>

\* let _ = rx_p.recv().unwrap();
DriverReceives ==
    /\ \/ /\ setup = "drive_prover"
          /\ ends.v_rx
          /\ chan_p # <<>>
          /\ chan_p' = Tail(chan_p)
          /\ chan_v' = chan_v
       \/ /\ setup = "drive_verifier"
          /\ ends.p_rx
          /\ chan_v # <<>>
          /\ chan_v' = Tail(chan_v)
          /\ chan_p' = chan_p
    /\ UNCHANGED <<fixed, pstate, pc_p, pc_v, ends, res_p, res_v, p_out, v_in,
                   trace, dsent>>

\* the driver drops the Sender it holds
DriverDropsSender ==
    /\ \/ /\ setup = "drive_prover"
          /\ ends.v_tx
          /\ ends' = [ends EXCEPT !.v_tx = FALSE]
       \/ /\ setup = "drive_verifier"
          /\ ends.p_tx
          /\ ends' = [ends EXCEPT !.p_tx = FALSE]
    /\ UNCHANGED <<fixed, pstate, pc_p, pc_v, chan_p, chan_v, res_p, res_v,
                   p_out, v_in, trace, dsent>>

\* the driver drops the Receiver it holds
DriverDropsReceiver ==
    /\ \/ /\ setup = "drive_prover"
          /\ ends.v_rx
          /\ ends' = [ends EXCEPT !.v_rx = FALSE]
       \/ /\ setup = "drive_verifier"
          /\ ends.p_rx
          /\ ends' = [ends EXCEPT !.p_rx = FALSE]
    /\ UNCHANGED <<fixed, pstate, pc_p, pc_v, chan_p, chan_v, res_p, res_v,
                   p_out, v_in, trace, dsent>>

VerifierSends1 ==
    /\ pc_v = "send1"
    /\ \E draws \in ShuffleDraws(verifier.val.param) : IVerifier_send1(draws)

VerifierSends2 ==
    /\ pc_v = "send2"
    /\ \E words \in UsizeDraws(verifier.val.param) : IVerifier_send2(words)

DriverSends ==
    \/ \E msg \in DriverVerifierMsgs : DriverSendsToProver(msg)
    \/ \E variant \in {"Step1", "Step2"} :
            DriverSendsToVerifier(DriverProverMsg(variant))

NextRun ==
    \/ IProver_step1
    \/ IProver_send1
    \/ IProver_recv1
    \/ IProver_send2
    \/ IProver_recv2
    \/ IVerifier_recv1
    \/ VerifierSends1
    \/ IVerifier_recv2
    \/ VerifierSends2
    \/ NIProver_join
    \/ DriverSends
    \/ DriverReceives
    \/ DriverDropsSender
    \/ DriverDropsReceiver

SpecRun == InitRun /\ [][NextRun]_vars

\* a thread is runnable unless it is over or blocked: a recv blocks while
\* the channel is empty and its sender lives, join blocks until the
\* prover's thread is over; a test driver is not a thread of the program
ProverRunnable ==
    \/ pc_p \in {"step1", "send1", "send2"}
    \/ pc_p \in {"recv1", "recv2"} /\ (chan_v # <<>> \/ ~ends.v_tx)

VerifierRunnable ==
    \/ pc_v \in {"send1", "send2"}
    \/ pc_v \in {"recv1", "recv2"} /\ (chan_p # <<>> \/ ~ends.p_tx)
    \/ pc_v = "join" /\ pc_p = "done"

ThreadPcs == {"step1", "recv1", "send1", "recv2", "send2", "join", "done"}

\* the next step of a runnable thread: each step of blocking_run (and of
\* prove) moves the thread on, and nothing else moves it
ProverThread == ProverRunnable /\ pc_p' \in ThreadPcs /\ pc_p' # pc_p

VerifierThread == VerifierRunnable /\ pc_v' \in ThreadPcs /\ pc_v' # pc_v

\* a runnable thread is scheduled: it takes its next step.  The test
\* driver is under no such obligation.
SpecRunFair ==
    /\ InitRun
    /\ [][NextRun]_vars
    /\ WF_pc_p(ProverThread)
    /\ WF_pc_v(VerifierThread)

(***************************************************************************)
(* The primitives called on their own, as the tests of primitives.rs call  *)
(* them: a call of commit followed by a call of verify, one call of        *)
(* prg_tree, one call of prg_bin; and the two generator calls that open    *)
(* the body of step1's loop.                                               *)
(***************************************************************************)
MaxValueLen == 2    \* committed values have 0..MaxValueLen bytes

CommitValues == SeqsUpTo({0, 1}, MaxValueLen)
\* an Opening is OPENING_SIZE bytes
Openings == BlockSet \cup {[i \in 1..OPENING_SIZE |-> IF i = 1 THEN 1 ELSE 0]}

PrimIv == ZeroBlock

MaxTreeSize == 5    \* prg_tree is asked for 0..MaxTreeSize blocks
MaxBits == 17       \* prg_bin is asked for 0..MaxBits bits, and for the
                    \* counts around one whole block of bits
BinSizes ==
    (0..MaxBits)
        \cup {8 * BLOCK_SIZE - 1, 8 * BLOCK_SIZE, 8 * BLOCK_SIZE + MaxBits}

\* the ssp_dimension of the repetitions drawn: the counts around one and
\* two whole blocks of bits
DrawSizes ==
    {1, MaxBits, 8 * BLOCK_SIZE - 1, 8 * BLOCK_SIZE, 8 * BLOCK_SIZE + 1,
     16 * BLOCK_SIZE, 16 * BLOCK_SIZE + MaxBits}

\* the largest block_count that prg_bin passes to prg_aes_ctr
PrimBlockCount == ((16 * BLOCK_SIZE + MaxBits) \div BLOCK_SIZE) + 1

\* the blocks of the sample keystreams, numbered 0..PrimBlockCount
PrimBlock(b) == [i \in 1..BLOCK_SIZE |-> (b * (i + BLOCK_SIZE)) % 256]
PrimBlocks == {PrimBlock(b) : b \in 0..PrimBlockCount}
PrimIndex(block) == CHOOSE b \in 0..PrimBlockCount : PrimBlock(b) = block

\* sample keystreams: under each key the counters 0, 1, .. give distinct
\* blocks (AES is a permutation), and the keys are the blocks themselves,
\* as prg_tree needs
PrimTables ==
    {[x \in PrimBlocks \X {PrimIv} \X (0..(PrimBlockCount - 1)) |->
        PrimBlock((m * PrimIndex(x[1]) + x[3] + s) % (PrimBlockCount + 1))] :
        m \in {1, 2}, s \in {0, 1, 3}}

InitPrimitives ==
    /\ build \in Builds
    /\ WrapIdle
    /\ aes \in PrimTables
    /\ prover = None
    /\ pstate = None
    /\ op = "init"
    /\ args = <<>>
    /\ ret = None
    /\ verifier = None
    /\ RunIdle

\* let c = commit(value, opening)
Commit(value, opening) ==
    /\ op = "init"
    /\ op' = "commit"
    /\ args' = [value |-> value, opening |-> opening]
    /\ ret' = commit(value, opening)
    /\ UNCHANGED <<wrap_vars, build, aes, prover, pstate, verifier, run_vars>>

\* verify(value, opening, &c) on the commitment the last call returned
Verify(value, opening) ==
    /\ op = "commit"
    /\ op' = "verify"
    /\ args' = [value |-> value, opening |-> opening, commitment |-> ret,
                committed |-> args]
    /\ ret' = verify(value, opening, ret)
    /\ UNCHANGED <<wrap_vars, build, aes, prover, pstate, verifier, run_vars>>

\* prg_tree(&seed, &iv, n)
PrgTree(seed, n) ==
    /\ op = "init"
    /\ op' = "prg_tree"
    /\ args' = [seed |-> seed, iv |-> PrimIv, n |-> n]
    /\ ret' = prg_tree(seed, PrimIv, n)
    /\ UNCHANGED <<wrap_vars, build, aes, prover, pstate, verifier, run_vars>>

\* prg_bin(&seed, &iv, n)
PrgBin(seed, n) ==
    /\ op = "init"
    /\ op' = "prg_bin"
    /\ args' = [seed |-> seed, iv |-> PrimIv, n |-> n]
    /\ ret' = IF prg_bin_panics(seed, PrimIv, n) THEN Panic
              ELSE Ok(prg_bin(seed, PrimIv, n))
    /\ UNCHANGED <<wrap_vars, build, aes, prover, pstate, verifier, run_vars>>

\* for mseed_inner in mseeds_inner { let rs = prg_bin(..);
\*     let seeds_rhos = prg_tree(..); let (seeds, rhos) = .. }
Step1Draws(mseed_inner, n, party_count) ==
    /\ op = "init"
    /\ op' = "step1_draws"
    /\ args' = [mseed_inner |-> mseed_inner, iv |-> PrimIv, n |-> n,
                party_count |-> party_count]
    /\ ret' = step1_draws([iv |-> PrimIv,
                           param |-> [ssp_dimension |-> n,
                                      party_count |-> party_count]],
                          mseed_inner)
    /\ UNCHANGED <<wrap_vars, build, aes, prover, pstate, verifier, run_vars>>

CallStep1Draws == \E mseed_inner \in {PrimBlock(0), PrimBlock(1)} :
                      \E n \in DrawSizes : \E party_count \in 1..MaxParties :
                          Step1Draws(mseed_inner, n, party_count)

CallPrgTree == \E seed \in {PrimBlock(0), PrimBlock(1)} :
                   \E n \in 0..MaxTreeSize : PrgTree(seed, n)

CallPrgBin == \E seed \in {PrimBlock(0), PrimBlock(1)} :
                  \E n \in BinSizes : PrgBin(seed, n)

CallCommit == \E value \in CommitValues : \E opening \in Openings :
                  Commit(value, opening)

CallVerify == \E value \in CommitValues : \E opening \in Openings :
                  Verify(value, opening)

NextPrimitives ==
    \/ CallCommit
    \/ CallVerify
    \/ CallPrgTree
    \/ CallPrgBin
    \/ CallStep1Draws

SpecPrimitives == InitPrimitives /\ [][NextPrimitives]_vars

(***************************************************************************)
(* io.rs: wrap_tcpstream.  Two threads serve one TcpStream: the reader     *)
(* thread forwards the frames it reads into reader_chan, the thread that   *)
(* runs select_loop writes the messages of writer_chan as frames and       *)
(* leaves the loop on a shutdown signal or an error; it then joins the     *)
(* reader thread and yields that thread's result.  The caller holds the    *)
(* three returned endpoints and the JoinHandle; the peer holds the other   *)
(* end of the connection.                                                  *)
(***************************************************************************)
TCPSTREAM_CAP == 1000

MaxAppSends == 2    \* the caller sends at most MaxAppSends messages
MaxPeerFrames == 1  \* the peer writes at most MaxPeerFrames times

\* struct DummyMsg { v: usize }
DummyMsg(v) == [v |-> v]

\* the usize that 8 little-endian bytes hold (values below 2^24)
FromLeBytes(bytes) == bytes[1] + 256 * bytes[2] + 65536 * bytes[3]

\* bincode::serialize of a DummyMsg: its field as 8 little-endian bytes
serialize(msg) == UsizeLeBytes(msg.v)

\* bincode::deserialize into a DummyMsg: the first 8 bytes, an error when
\* the buffer is shorter
deserialize(value_buf) ==
    IF Len(value_buf) < U64_BYTES THEN Err("Other")
    ELSE Ok(DummyMsg(FromLeBytes(value_buf)))

\* the bytes of write_length
write_length(len) == UsizeLeBytes(len)

\* the bytes read_length consumes, and the length they hold
read_length(bytes) == FromLeBytes(SubSeq(bytes, 1, U64_BYTES))

\* write_length(&mut writer, data.len())?; (&mut writer).write_all(&data)?
frame_of(msg) == write_length(Len(serialize(msg))) \o serialize(msg)

\* what the peer writes: the frame of a message, a frame of no bytes, and
\* a length that no data follows
PeerWritings ==
    {frame_of(DummyMsg(1)), write_length(0), write_length(U64_BYTES)}

AppEvent(act, msg) == [act |-> act, msg |-> msg]
AppSends == {i \in 1..Len(app_trace) : app_trace[i].act = "send"}

\* the state when wrap_tcpstream has returned (the build profile changes
\* nothing in io.rs; the test of io.rs runs in the test profile)
InitWrap ==
    /\ build = "debug"
    /\ aes = <<>>
    /\ prover = None
    /\ pstate = None
    /\ op = "init"
    /\ args = <<>>
    /\ ret = None
    /\ verifier = None
    /\ RunIdle
    /\ writer_chan = <<>>
    /\ reader_chan = <<>>
    /\ shutdown_chan = <<>>
    /\ held = [sender |-> TRUE, receiver |-> TRUE, shutdown_sender |-> TRUE]
    /\ stream_out = <<>>
    /\ stream_in = <<>>
    /\ stream_shut = FALSE
    /\ peer_closed = FALSE
    /\ peer_wrote = <<>>
    /\ pc_reader = "read"
    /\ reader_msg = None
    /\ res_reader = None
    /\ pc_wrap = "select"
    /\ res_select = None
    /\ res_hdl = None
    /\ app_trace = <<>>

wrap_fixed == <<build, aes, prover, pstate, op, args, ret, verifier, run_vars>>

\* Err(e) => { try_shutdown(&reader); eprintln!(..); return Err(e); }
ReaderFails(e) ==
    /\ stream_shut' = TRUE
    /\ pc_reader' = "done"
    /\ reader_msg' = None
    /\ res_reader' = e

\* read_length, read_exact and bincode::deserialize of the reader thread.
\* A read ends in UnexpectedEof when the bytes it needs are not there and
\* the peer has closed; once the stream is shut down locally a read may
\* also end so although the bytes are there (what is left readable after
\* shutdown depends on the platform).  UnexpectedEof makes the thread
\* return Ok(()).
ReaderRead ==
    /\ pc_reader = "read"
    /\ LET has_frame ==
               /\ Len(stream_in) >= U64_BYTES
               /\ Len(stream_in) >= U64_BYTES + read_length(stream_in)
       IN  \/ /\ has_frame
              /\ LET n == read_length(stream_in)
                     value_buf == SubSeq(stream_in, U64_BYTES + 1, U64_BYTES + n)
                     msg == deserialize(value_buf)
                 IN  /\ stream_in' =
                            SubSeq(stream_in, U64_BYTES + n + 1, Len(stream_in))
                     /\ IF msg.tag = "Ok"
                        THEN /\ pc_reader' = "send"
                             /\ reader_msg' = Some(msg.val)
                             /\ UNCHANGED <<stream_shut, res_reader>>
                        ELSE ReaderFails(msg)
           \/ /\ stream_shut \/ (peer_closed /\ ~has_frame)
              /\ pc_reader' = "done"
              /\ res_reader' = Ok(<<>>)
              /\ UNCHANGED <<stream_in, stream_shut, reader_msg>>
    /\ UNCHANGED <<wrap_fixed, writer_chan, reader_chan, shutdown_chan, held,
                   stream_out, peer_closed, peer_wrote, pc_wrap, res_select,
                   res_hdl, app_trace>>

\* match reader_s.send(msg) { Ok(()) => Ok(()), Err(e) => Err(io::Error::new(Other, e)) }
ReaderSend ==
    /\ pc_reader = "send"
    /\ IF ~held.receiver
       THEN /\ ReaderFails(Err("Other"))
            /\ UNCHANGED reader_chan
       ELSE /\ Len(reader_chan) < TCPSTREAM_CAP
            /\ reader_chan' = Append(reader_chan, reader_msg.val)
            /\ pc_reader' = "read"
            /\ reader_msg' = None
            /\ UNCHANGED <<stream_shut, res_reader>>
    /\ UNCHANGED <<wrap_fixed, writer_chan, shutdown_chan, held, stream_out,
                   stream_in, peer_closed, peer_wrote, pc_wrap, res_select,
                   res_hdl, app_trace>>

\* e => { try_shutdown(&writer); eprintln!(..); return e; }
SelectLoopFails(e) ==
    /\ stream_shut' = TRUE
    /\ pc_wrap' = "join"
    /\ res_select' = e
    /\ UNCHANGED stream_out

\* select! { recv(writer_r) -> msg_res => .. }: the branch is ready when a
\* message waits or every sender is gone.  A write fails on a stream that
\* is shut down, and may fail once the peer has closed.
SelectWriter ==
    /\ pc_wrap = "select"
    /\ writer_chan # <<>> \/ ~held.sender
    /\ IF writer_chan = <<>>
       THEN /\ SelectLoopFails(Err("Other"))
            /\ UNCHANGED writer_chan
       ELSE /\ writer_chan' = Tail(writer_chan)
            /\ \/ /\ ~stream_shut
                  /\ stream_out' = stream_out \o frame_of(Head(writer_chan))
                  /\ UNCHANGED <<stream_shut, pc_wrap, res_select>>
               \/ /\ stream_shut \/ peer_closed
                  /\ SelectLoopFails(Err("BrokenPipe"))
    /\ UNCHANGED <<wrap_fixed, reader_chan, shutdown_chan, held, stream_in,
                   peer_closed, peer_wrote, pc_reader, reader_msg, res_reader,
                   res_hdl, app_trace>>

\* a shutdown branch that leaves the stream open
SelectShutdown_keeps_stream ==
    /\ pc_wrap = "select"
    /\ shutdown_chan # <<>> \/ ~held.shutdown_sender
    /\ pc_wrap' = "join"
    /\ IF shutdown_chan = <<>>
       THEN /\ res_select' = Err("Other")
            /\ UNCHANGED shutdown_chan
       ELSE /\ res_select' = Ok(<<>>)
            /\ shutdown_chan' = Tail(shutdown_chan)
    /\ UNCHANGED <<wrap_fixed, writer_chan, reader_chan, held, stream_out,
                   stream_in, stream_shut, peer_closed, peer_wrote, pc_reader,
                   reader_msg, res_reader, res_hdl, app_trace>>

\* select! { recv(shutdown_r) -> msg_res => { try_shutdown(&writer);
\*     return msg_res.map_err(..); } }: the branch is ready when a signal
\* waits or the shutdown sender is gone.  When both branches are ready
\* select! takes either.
SelectShutdown ==
    /\ pc_wrap = "select"
    /\ shutdown_chan # <<>> \/ ~held.shutdown_sender
    /\ stream_shut' = TRUE
    /\ pc_wrap' = "join"
    /\ IF shutdown_chan = <<>>
       THEN /\ res_select' = Err("Other")
            /\ UNCHANGED shutdown_chan
       ELSE /\ res_select' = Ok(<<>>)
            /\ shutdown_chan' = Tail(shutdown_chan)
    /\ UNCHANGED <<wrap_fixed, writer_chan, reader_chan, held, stream_out,
                   stream_in, peer_closed, peer_wrote, pc_reader, reader_msg,
                   res_reader, res_hdl, app_trace>>

\* let _ = select_loop(); read_hdl.join().expect("reader thread panicked")
WrapJoin ==
    /\ pc_wrap = "join"
    /\ pc_reader = "done"
    /\ pc_wrap' = "done"
    /\ res_hdl' = res_reader
    /\ UNCHANGED <<wrap_fixed, writer_chan, reader_chan, shutdown_chan, held,
                   stream_out, stream_in, stream_shut, peer_closed,
                   peer_wrote, pc_reader, reader_msg, res_reader, res_select,
                   app_trace>>

\* sender.send(msg) by the caller; writer_r lives as long as the thread
AppSend(msg) ==
    /\ held.sender
    /\ pc_wrap # "done"
    /\ Cardinality(AppSends) < MaxAppSends
    /\ Len(writer_chan) < TCPSTREAM_CAP
    /\ writer_chan' = Append(writer_chan, msg)
    /\ app_trace' = Append(app_trace, AppEvent("send", msg))
    /\ UNCHANGED <<wrap_fixed, reader_chan, shutdown_chan, held, stream_out,
                   stream_in, stream_shut, peer_closed, peer_wrote, pc_reader,
                   reader_msg, res_reader, pc_wrap, res_select, res_hdl>>

\* shutdown_sender.send(()) by the caller; the channel holds one signal
AppShutdown ==
    /\ held.shutdown_sender
    /\ pc_wrap # "done"
    /\ shutdown_chan = <<>>
    /\ shutdown_chan' = <<DummyMsg(0)>>
    /\ app_trace' = Append(app_trace, AppEvent("shutdown", DummyMsg(0)))
    /\ UNCHANGED <<wrap_fixed, writer_chan, reader_chan, held, stream_out,
                   stream_in, stream_shut, peer_closed, peer_wrote, pc_reader,
                   reader_msg, res_reader, pc_wrap, res_select, res_hdl>>

\* receiver.recv() by the caller
AppRecv ==
    /\ held.receiver
    /\ reader_chan # <<>>
    /\ reader_chan' = Tail(reader_chan)
    /\ UNCHANGED <<wrap_fixed, writer_chan, shutdown_chan, held, stream_out,
                   stream_in, stream_shut, peer_closed, peer_wrote, pc_reader,
                   reader_msg, res_reader, pc_wrap, res_select, res_hdl,
                   app_trace>>

\* the caller drops one of the returned endpoints
AppDrops(endpoint) ==
    /\ held[endpoint]
    /\ held' = [held EXCEPT ![endpoint] = FALSE]
    /\ UNCHANGED <<wrap_fixed, writer_chan, reader_chan, shutdown_chan,
                   stream_out, stream_in, stream_shut, peer_closed,
                   peer_wrote, pc_reader, reader_msg, res_reader, pc_wrap,
                   res_select, res_hdl, app_trace>>

\* stream.write_all(..) at the other end of the connection
PeerWrites(bytes) ==
    /\ ~peer_closed
    /\ ~stream_shut
    /\ Len(peer_wrote) < MaxPeerFrames
    /\ stream_in' = stream_in \o bytes
    /\ peer_wrote' = Append(peer_wrote, bytes)
    /\ UNCHANGED <<wrap_fixed, writer_chan, reader_chan, shutdown_chan, held,
                   stream_out, stream_shut, peer_closed, pc_reader, reader_msg,
                   res_reader, pc_wrap, res_select, res_hdl, app_trace>>

\* the peer closes its end
PeerCloses ==
    /\ ~peer_closed
    /\ peer_closed' = TRUE
    /\ UNCHANGED <<wrap_fixed, writer_chan, reader_chan, shutdown_chan, held,
                   stream_out, stream_in, stream_shut, peer_wrote, pc_reader,
                   reader_msg, res_reader, pc_wrap, res_select, res_hdl,
                   app_trace>>

\* the caller's messages are numbered in the order it sends them
AppSendsAny == AppSend(DummyMsg(Cardinality(AppSends) + 1))
AppDropsAny == \E endpoint \in DOMAIN held : AppDrops(endpoint)
PeerWritesAny == \E bytes \in PeerWritings : PeerWrites(bytes)

ReaderThread == ReaderRead \/ ReaderSend
SelectLoopThread == SelectWriter \/ SelectShutdown \/ WrapJoin

NextWrap ==
    \/ ReaderRead
    \/ ReaderSend
    \/ SelectWriter
    \/ SelectShutdown
    \/ WrapJoin
    \/ AppSendsAny
    \/ AppShutdown
    \/ AppRecv
    \/ AppDropsAny
    \/ PeerWritesAny
    \/ PeerCloses

SpecWrap == InitWrap /\ [][NextWrap]_vars

\* each of the two spawned threads keeps running while it has a step to
\* take; nothing obliges the caller or the peer to act
SpecWrapFair ==
    /\ InitWrap
    /\ [][NextWrap]_vars
    /\ WF_vars(ReaderThread)
    /\ WF_vars(SelectLoopThread)

(***************************************************************************)
(* Properties of the prover's interface, checked under Spec.               *)
(***************************************************************************)
Range(f) == {f[i] : i \in DOMAIN f}

\* C3: the seeds step2 returns for a challenge J are the inner seeds of
\* exactly the repetitions outside J, each once, and none of them is the
\* inner seed of a repetition in J.
C3_RevealsComplement ==
    (op = "step2" /\ ret.tag = "Ok") =>
        LET state == pstate.val.step1_state
            chalJ == args.chalJ
            mseeds == ret.val.mseeds
            complement == {e \in 0..(Len(state) - 1) : e \notin Range(chalJ)}
        IN  /\ Len(mseeds) = Cardinality(complement)
            /\ \E order \in [1..Len(mseeds) -> complement] :
                    /\ \A j, k \in 1..Len(mseeds) :
                            j # k => order[j] # order[k]
                    /\ \A k \in 1..Len(mseeds) :
                            mseeds[k] = state[order[k] + 1].mseed_inner
            /\ \A j \in 1..Len(chalJ), k \in 1..Len(mseeds) :
                    mseeds[k] # state[chalJ[j] + 1].mseed_inner

\* C4: a step2 call whose challenge has a length other than rep_param
\* returns Err(BadChallengeLength), so no (h_prime, mseeds), and leaves the
\* ProverState (and the Prover) as they were.
C4_BadLengthRejected ==
    [][(op' = "step2" /\ Len(args'.chalJ) # prover.val.param.rep_param)
        => /\ ret' = Err("BadChallengeLength")
           /\ pstate' = pstate
           /\ prover' = prover]_vars

\* a challenge longer than rep_param, with an index past cnc_param, was
\* rejected for its length
C4_Witness ==
    /\ op = "step2"
    /\ Len(args.chalJ) > prover.val.param.rep_param
    /\ \E j \in 1..Len(args.chalJ) :
            args.chalJ[j] >= prover.val.param.cnc_param
    /\ ret = Err("BadChallengeLength")
    /\ pstate # None

\* C5: a step2 call whose challenge has rep_param entries, one of them
\* outside [0, cnc_param), returns an error value (no panic, no output).
C5_OutOfRangeIsAnError ==
    (/\ op = "step2"
     /\ Len(args.chalJ) = prover.val.param.rep_param
     /\ \E j \in 1..Len(args.chalJ) :
            args.chalJ[j] \notin 0..(prover.val.param.cnc_param - 1))
        => /\ ret.tag = "Err"
           /\ ret.val \in {"BadChallenge", "BadChallengeLength"}

\* C6: sanity_check returns the error of the first failing check, in the
\* order witness length, weights length, abort_param >= 64, inner product
\* (added and multiplied modulo 2^64) against t, and Ok(()) when none fails.
C6_SanityCheckOrder ==
    op = "sanity_check" =>
        LET witness == args.witness
            instance == args.instance
            param == args.param
        IN  ret =
                IF Len(witness) # param.ssp_dimension
                THEN Err("BadWitnessLength")
                ELSE IF Len(instance.weights) # param.ssp_dimension
                THEN Err("BadInstanceLength")
                ELSE IF param.abort_param >= 64 THEN Err("BadAbortParam")
                ELSE IF FoldWrappingAdd(U64Zero,
                            Products(witness, instance.weights)) # instance.t
                THEN Err("BadWitnessOrInstance")
                ELSE Ok(<<>>)

\* C7: whatever the Param and the generator's output, the witness and
\* instance of a Prover built by Prover::new pass sanity_check with the
\* Param the Prover holds.
C7_NewPassesSanityCheck ==
    op = "new" =>
        sanity_check(prover.val.witness, prover.val.instance,
                     prover.val.param) = Ok(<<>>)

\* C8: the witness of a constructed Prover has every byte in {0, 1}, and
\* every x_tilde that step2 subtracts from 1u8 is at most 1.
C8_WitnessBytesAreBits ==
    /\ prover # None =>
            \A k \in 1..Len(prover.val.witness) :
                prover.val.witness[k] \in {0, 1}
    /\ (/\ op = "step2"
        /\ Len(args.chalJ) = prover.val.param.rep_param
        /\ \A j \in 1..Len(args.chalJ) :
                IndexInRange(pstate.val, args.chalJ[j]))
            => \A j \in 1..Len(args.chalJ) :
                    LET xs_tilde ==
                            xs_tilde_of(prover.val,
                                pstate.val.step1_state[args.chalJ[j] + 1])
                    IN  \A k \in 1..Len(xs_tilde) : xs_tilde[k] <= 1

(***************************************************************************)
(* Properties of the verifier's sampling, checked under SpecVerifier.      *)
(***************************************************************************)
Distinct(xs) == \A j, k \in 1..Len(xs) : j # k => xs[j] # xs[k]

\* what a well-formed pair of challenges is: J has rep_param pairwise
\* distinct entries in [0, cnc_param), L has rep_param entries in
\* [0, party_count)
ChallengesWellFormed ==
    /\ op = "verifier_step1" =>
            /\ ret.tag = "Ok"
            /\ Len(ret.val) = verifier.val.param.rep_param
            /\ Distinct(ret.val)
            /\ \A k \in 1..Len(ret.val) :
                    ret.val[k] \in 0..(verifier.val.param.cnc_param - 1)
    /\ op = "verifier_step2" =>
            /\ ret.tag = "Ok"
            /\ Len(ret.val) = verifier.val.param.rep_param
            /\ \A k \in 1..Len(ret.val) :
                    ret.val[k] \in 0..(verifier.val.param.party_count - 1)

\* C9 as stated: for every Param and every generator, step1 returns
\* rep_param pairwise distinct indices in [0, cnc_param) and step2 returns
\* rep_param indices in [0, party_count).
C9_ChallengesWellFormed == verifier # None => ChallengesWellFormed

\* C9, for the Params with rep_param <= cnc_param and party_count >= 1:
\* step1 returns rep_param pairwise distinct indices in [0, cnc_param) and
\* step2 returns rep_param indices in [0, party_count).
C9_ChallengesWellFormedForValidParam ==
    (/\ verifier # None
     /\ verifier.val.param.rep_param <= verifier.val.param.cnc_param
     /\ verifier.val.param.party_count >= 1)
        => ChallengesWellFormed

\* step1 returned two indices out of three, out of their initial order
C9_Witness ==
    /\ op = "verifier_step1"
    /\ verifier.val.param.cnc_param = 3
    /\ verifier.val.param.rep_param = 2
    /\ verifier.val.param.party_count >= 1
    /\ ret.val = <<2, 0>>

(***************************************************************************)
(* Properties of the interactive run, checked under SpecRun.               *)
(***************************************************************************)
IsSend(e) == e.act = "send"

Sends == SelectSeq(trace, IsSend)

IsPrefix(a, b) == Len(a) <= Len(b) /\ a = SubSeq(b, 1, Len(a))

\* event e occurs in the trace before position i
Earlier(e, i) == \E j \in 1..(i - 1) : trace[j] = e

\* C1: in a run of IProver against IVerifier the messages sent are, in
\* order, a prefix of ProverMsg::Step1, VerifierMsg::Step1,
\* ProverMsg::Step2, VerifierMsg::Step2; the verifier sends Step1 only
\* after it received Step1, the prover sends Step2 only after it received
\* Step1, the verifier sends Step2 only after it received Step2.
C1_MessageOrder ==
    setup = "run" =>
        /\ IsPrefix(Sends,
               <<Event("P", "send", "Step1"), Event("V", "send", "Step1"),
                 Event("P", "send", "Step2"), Event("V", "send", "Step2")>>)
        /\ \A i \in 1..Len(trace) :
               /\ trace[i] = Event("V", "send", "Step1")
                      => Earlier(Event("V", "recv", "Step1"), i)
               /\ trace[i] = Event("P", "send", "Step2")
                      => Earlier(Event("P", "recv", "Step1"), i)
               /\ trace[i] = Event("V", "send", "Step2")
                      => Earlier(Event("V", "recv", "Step2"), i)

\* all four messages were sent and both parties returned Ok
C1_Witness ==
    /\ setup = "run"
    /\ Len(Sends) = 4
    /\ res_p = Ok(<<>>)
    /\ res_v = Ok(TRUE)

\* the number of receives of trace[i].who up to position i
RecvOrdinal(i) ==
    Cardinality({j \in 1..i :
                    trace[j].who = trace[i].who /\ trace[j].act = "recv"})

\* position i is a receive, by a party, of a variant other than the one
\* its blocking_run expects there (Step1 first, Step2 second)
WrongVariantAt(i) ==
    /\ trace[i].who \in {"P", "V"}
    /\ trace[i].act = "recv"
    /\ trace[i].variant # (IF RecvOrdinal(i) = 1 THEN "Step1" ELSE "Step2")

ResultOf(who) == IF who = "P" THEN res_p ELSE res_v

\* C2: a party that received a message of the wrong variant has returned
\* Err(ProtocolError) and has sent nothing after that receive.
C2_WrongVariantIsProtocolError ==
    \A i \in 1..Len(trace) :
        WrongVariantAt(i) =>
            /\ ResultOf(trace[i].who) = Err("ProtocolError")
            /\ \A j \in (i + 1)..Len(trace) :
                    ~(trace[j].who = trace[i].who /\ trace[j].act = "send")

\* the prover got through its first round and then received a Step1
\* where it expected Step2
C2_Witness ==
    /\ setup = "drive_prover"
    /\ \E i \in 1..Len(trace) :
            /\ WrongVariantAt(i)
            /\ trace[i] = Event("P", "recv", "Step1")
    /\ res_p = Err("ProtocolError")

\* C16: after step1 with a Param with log A < 64, for every repetition and
\* every coordinate k, r_shares_sum[k] is the sum of the N parties'
\* r_share[k] modulo 2^64 and delta_rs[k] + r_shares_sum[k] = rs[k] modulo
\* 2^64; step1 completes also when the sum of the shares exceeds 2^64.
C16_ShareSumsWrap ==
    (op = "step1" /\ prover.val.param.abort_param < 64) =>
        /\ ret.tag = "Ok"
        /\ \A e \in 1..Len(pstate.val.step1_state) :
            LET inner == pstate.val.step1_state[e]
            IN  \A k \in 1..prover.val.param.ssp_dimension :
                    /\ inner.r_shares_sum[k] =
                            FoldWrappingAdd(U64Zero,
                                [i \in 1..Len(inner.r_shares) |->
                                    inner.r_shares[i][k]])
                    /\ wrapping_add(inner.delta_rs[k], inner.r_shares_sum[k])
                            = ToU64(inner.rs[k])

\* C17: in step2, for every challenged repetition and every party i,
\* t_share_i is the sum over k of w[k] * x_share_i[k] modulo 2^64, where
\* x_share_i[k] = (1 - x~[k]) * r_share_i[k] + x~[k] * (1 - r_share_i[k])
\* modulo 2^64 and x~ = witness XOR rs; the products and the sum wrap and
\* step2 never aborts on them.
C17_TSharesWrap ==
    (/\ op = "step2"
     /\ Len(args.chalJ) = prover.val.param.rep_param
     /\ \A j \in 1..Len(args.chalJ) : IndexInRange(pstate.val, args.chalJ[j])
     /\ \A k \in 1..Len(prover.val.witness) : prover.val.witness[k] \in {0, 1})
    =>
    /\ ret.tag = "Ok"
    /\ ret.val.h_prime = hash4(
        [j \in 1..Len(args.chalJ) |->
            LET inner == pstate.val.step1_state[args.chalJ[j] + 1]
                w == prover.val.instance.weights
                x_tilde == [k \in 1..Len(inner.rs) |->
                                Xor8(prover.val.witness[k], inner.rs[k])]
                x(i, k) == IF x_tilde[k] = 0 THEN inner.r_shares[i][k]
                           ELSE wrapping_sub(U64One, inner.r_shares[i][k])
                t_shares == [i \in 1..Len(inner.r_shares) |->
                                FoldWrappingAdd(U64Zero,
                                    [k \in 1..Len(w) |->
                                        wrapping_mul(w[k], x(i, k))])]
            IN  hash3(x_tilde, t_shares)])

\* C18: every ProverState that step1 returns is well-formed: it holds M
\* records, in the order of the outer prg_tree's output; each record holds
\* N seeds, N openings, N commitments and N r_share vectors of length n;
\* rs, r_shares_sum and delta_rs have length n; h1 = H1(delta_rs, coms);
\* and h is H2 of the M values h1 in order.
C18_ProverStateWellFormed ==
    (op = "step1" /\ ret.tag = "Ok") =>
        LET self == prover.val
            param == self.param
            state == pstate.val
            records == state.step1_state
            outer == prg_tree(self.mseed, self.iv, param.cnc_param)
        IN  /\ Len(records) = param.cnc_param
            /\ \A e \in 1..Len(records) :
                LET inner == records[e]
                IN  /\ inner.mseed_inner = outer[e]
                    /\ Len(inner.seeds) = param.party_count
                    /\ Len(inner.rhos) = param.party_count
                    /\ Len(inner.coms) = param.party_count
                    /\ Len(inner.r_shares) = param.party_count
                    /\ \A i \in 1..Len(inner.r_shares) :
                            Len(inner.r_shares[i]) = param.ssp_dimension
                    /\ Len(inner.rs) = param.ssp_dimension
                    /\ Len(inner.r_shares_sum) = param.ssp_dimension
                    /\ Len(inner.delta_rs) = param.ssp_dimension
                    /\ inner.h1 = hash1(inner.delta_rs, inner.coms)
            /\ state.h = hash2([e \in 1..Len(records) |-> records[e].h1])

\* step1 has returned the state of two repetitions of three parties
C18_Witness ==
    /\ op = "step1"
    /\ ret.tag = "Ok"
    /\ prover.val.param.party_count = 3
    /\ Len(pstate.val.step1_state) = 2
    /\ Len(pstate.val.step1_state[2].coms) = 3

(***************************************************************************)
(* Properties of the primitives, checked under SpecPrimitives.             *)
(***************************************************************************)
\* C11: verify(value, opening, c) on c = commit(value0, opening0) is true
\* when value = value0 and opening = opening0, and false when the opening
\* or the value differs (the hash being collision-free).
C11_VerifyIffSamePair ==
    op = "verify" =>
        (ret <=> (/\ args.value = args.committed.value
                  /\ args.opening = args.committed.opening))

\* verify has accepted the committed pair and, in another run, rejected a
\* pair that differs from it in the opening only
C11_Witness ==
    /\ op = "verify"
    /\ args.value = args.committed.value
    /\ args.value # <<>>
    /\ args.opening = args.committed.opening
    /\ ret = TRUE

C11_WitnessRejects ==
    /\ op = "verify"
    /\ args.value = args.committed.value
    /\ args.opening # args.committed.opening
    /\ ret = FALSE

RECURSIVE FrontierPaths(_, _)
\* the nodes of the binary tree, each named by its path from the root (0
\* left, 1 right), that the queue holds when it has n entries: the front
\* node is replaced by its two children, appended at the back
FrontierPaths(queue, n) ==
    IF Len(queue) >= n THEN queue
    ELSE FrontierPaths(Tail(queue) \o <<Append(Head(queue), 0),
                                        Append(Head(queue), 1)>>, n)

RECURSIVE NodeAt(_, _, _)
\* the block at a path: the root is the seed, the children of a block are
\* blocks 0 and 1 of the keystream under that block as key
NodeAt(seed, iv, path) ==
    IF path = <<>> THEN seed
    ELSE LET parent == NodeAt(seed, iv, SubSeq(path, 1, Len(path) - 1))
         IN  prg_aes_ctr(parent, iv, 2)[path[Len(path)] + 1]

\* C19: prg_tree(seed, iv, n) returns exactly n blocks for n >= 1; for
\* n = 1 the seed itself; for n = 2 blocks 0 and 1 of prg_blocks(seed, iv,
\* 2); in general the content of a first-in-first-out queue that starts as
\* [seed] and whose front element is replaced by its two children, appended
\* at the back, until it holds n elements, so that no returned block is an
\* ancestor of another returned block.
C19_TreeIsQueueFrontier ==
    (op = "prg_tree" /\ args.n >= 1) =>
        LET paths == FrontierPaths(<<<<>>>>, args.n)
        IN  /\ Len(ret) = args.n
            /\ args.n = 1 => ret = <<args.seed>>
            /\ args.n = 2 => ret = prg_aes_ctr(args.seed, args.iv, 2)
            /\ \A i \in 1..Len(ret) :
                    ret[i] = NodeAt(args.seed, args.iv, paths[i])
            /\ \A i, j \in 1..Len(paths) :
                    i # j => ~IsPrefix(paths[i], paths[j])

\* prg_tree has returned the five blocks of an unbalanced tree
C19_Witness ==
    /\ op = "prg_tree"
    /\ args.n = 5
    /\ Len(ret) = 5
    /\ ret[5] = NodeAt(args.seed, args.iv, <<0, 0, 1>>)

\* C20: prg_bin(seed, iv, n), n >= 1, returns exactly n entries, each 0 or
\* 1; entry i is bit (i mod 8), counted from the least significant bit, of
\* byte floor(i / 8) of the keystream; the floor(n / 16) + 1 blocks it asks
\* for hold at least n bits, so it never reaches unreachable!().
C20_BitsOfKeystream ==
    (op = "prg_bin" /\ args.n >= 1) =>
        /\ ((args.n \div BLOCK_SIZE) + 1) * BLOCK_SIZE * 8 >= args.n
        /\ ret.tag = "Ok"
        /\ Len(ret.val) = args.n
        /\ \A i \in 0..(args.n - 1) :
            LET byte_number == i \div 8
                keystream_byte ==
                    aes[<<args.seed, args.iv, byte_number \div BLOCK_SIZE>>]
                       [(byte_number % BLOCK_SIZE) + 1]
            IN  /\ ret.val[i + 1] \in {0, 1}
                /\ ret.val[i + 1] = (keystream_byte \div (2 ^ (i % 8))) % 2

\* prg_bin has returned bits of the keystream's second block
C20_Witness ==
    /\ op = "prg_bin"
    /\ args.n > 8 * BLOCK_SIZE
    /\ ret.tag = "Ok"
    /\ Len(ret.val) = args.n
    /\ \E i \in (8 * BLOCK_SIZE + 1)..args.n : ret.val[i] = 1

\* the block at a path that starts at one of the two children of the root
NodeUnder(left, right, iv, path) ==
    NodeAt(IF Head(path) = 0 THEN left ELSE right, iv, Tail(path))

\* the bits of a sequence of bytes, each byte from its least significant bit
BitsLsbFirst(bytes, n) ==
    [k \in 1..n |-> (bytes[((k - 1) \div 8) + 1] \div (2 ^ ((k - 1) % 8))) % 2]

\* C21: in step1, for every repetition e the mask bits rs_e and the
\* party-seed tree are drawn from the same AES-CTR keystream (key
\* mseed_inner[e], the shared iv): rs_e is the least-significant-bit-first
\* expansion of the first bytes of that keystream, whose blocks 0 and 1 are
\* exactly the left and right child that prg_tree(mseed_inner[e], iv, 2N)
\* derives from mseed_inner[e]; hence for n <= 128 rs_e is a function of
\* the left child alone, and for n <= 256 of the two children.
C21_MaskBitsFromTreeChildren ==
    (op = "step1_draws") =>
        LET keystream(i) == aes[<<args.mseed_inner, args.iv, i>>]
            left == keystream(0)
            right == keystream(1)
            blocks == (args.n + 8 * BLOCK_SIZE - 1) \div (8 * BLOCK_SIZE)
            bytes == Concat([i \in 1..blocks |-> keystream(i - 1)])
            paths == FrontierPaths(<<<<0>>, <<1>>>>, 2 * args.party_count)
            leaves == [i \in 1..(2 * Len(ret.seeds)) |->
                          IF i % 2 = 1 THEN ret.seeds[(i + 1) \div 2]
                          ELSE ret.rhos[i \div 2]]
        IN  /\ ret.rs = BitsLsbFirst(bytes, args.n)
            /\ Len(leaves) = 2 * args.party_count
            /\ \A i \in 1..Len(leaves) :
                    leaves[i] = NodeUnder(left, right, args.iv, paths[i])
            /\ args.n <= 8 * BLOCK_SIZE =>
                    ret.rs = BitsLsbFirst(left, args.n)
            /\ args.n <= 16 * BLOCK_SIZE =>
                    ret.rs = BitsLsbFirst(left \o right, args.n)

\* a repetition of two parties whose mask bits reach into the right child,
\* with a bit set there
C21_Witness ==
    /\ op = "step1_draws"
    /\ args.n > 8 * BLOCK_SIZE
    /\ args.n <= 16 * BLOCK_SIZE
    /\ args.party_count = 2
    /\ Len(ret.seeds) = 2
    /\ \E k \in (8 * BLOCK_SIZE + 1)..args.n : ret.rs[k] = 1
    /\ ret.rs = BitsLsbFirst(aes[<<args.mseed_inner, args.iv, 0>>]
                                \o aes[<<args.mseed_inner, args.iv, 1>>],
                             args.n)

(***************************************************************************)
(* Properties of wrap_tcpstream, checked under SpecWrap and SpecWrapFair.  *)
(***************************************************************************)
\* the position in app_trace of the first shutdown signal (0 when none)
FirstShutdown ==
    IF \E i \in 1..Len(app_trace) : app_trace[i].act = "shutdown"
    THEN CHOOSE i \in 1..Len(app_trace) :
            /\ app_trace[i].act = "shutdown"
            /\ \A j \in 1..(i - 1) : app_trace[j].act # "shutdown"
    ELSE 0

RECURSIVE FramesOf(_)
\* the frames of the messages sent in a piece of app_trace, in order
FramesOf(events) ==
    IF events = <<>> THEN <<>>
    ELSE (IF Head(events).act = "send" THEN frame_of(Head(events).msg)
          ELSE <<>>) \o FramesOf(Tail(events))

\* select_loop has taken a shutdown signal and shut the stream down
ShutDownBySignal == res_select = Ok(<<>>)

\* C22: in wrap_tcpstream, every message put on the returned sender channel
\* before the shutdown signal is sent is written to the stream,
\* length-prefixed and in send order, before the stream is shut down; a
\* shutdown signal never causes an earlier-sent message to be dropped.
C22_SentBeforeShutdownIsWritten ==
    ShutDownBySignal =>
        IsPrefix(FramesOf(SubSeq(app_trace, 1, FirstShutdown - 1)), stream_out)

\* the caller has sent a shutdown signal
ShutdownSent == \E i \in 1..Len(app_trace) : app_trace[i].act = "shutdown"

\* the JoinHandle has completed
HandleCompleted == pc_wrap = "done"

HonestRun ==
    /\ setup \in {"run", "prove"}
    /\ verifier.val.param = prover.val.param

\* C12: an honest run always completes: an IProver run against
\* IVerifier.blocking_run, or against the inline driver of NIProver.prove,
\* built from the same Param never blocks for ever; both sides terminate,
\* the prover with Ok(()), the IVerifier with Ok(true), and NIProver.prove
\* with Ok of the h and the (h', mseeds) that the prover sent.
C12_HonestRunCompletes ==
    HonestRun =>
        <>(/\ pc_p = "done"
           /\ pc_v = "done"
           /\ res_p.tag = "Ok"
           /\ res_v.tag = "Ok"
           /\ IF setup = "run"
              THEN res_v.val = TRUE
              ELSE res_v.val = [step1 |-> pstate.val.h, step2 |-> p_out.val])

\* InternalError::{RecvError, SendErrorProverMsg, SendErrorVerifierMsg}
ChannelErrors == {"RecvError", "SendErrorProverMsg", "SendErrorVerifierMsg"}

\* blocking_run of the party ended early: with an Err, or by a panic
StoppedEarly(res) == res.tag \in {"Err", "Panic"}

ReportsChannelError(res) == res.tag = "Err" /\ res.val \in ChannelErrors

\* C13: when one party of a run stops early with an error (a step error
\* such as BadChallengeLength from a verifier built with another tau, or a
\* panic) while its counterpart is still running, its channel ends are
\* closed and the counterpart eventually terminates and reports its own
\* channel error.
C13_CounterpartReportsChannelError ==
    /\ [](setup \in {"run", "prove"} /\ StoppedEarly(res_p)
            => ~ends.p_tx /\ ~ends.p_rx)
    /\ [](setup = "run" /\ StoppedEarly(res_v)
            => ~ends.v_tx /\ ~ends.v_rx)
    /\ (setup \in {"run", "prove"} /\ StoppedEarly(res_p) /\ pc_v # "done")
            ~> (pc_v = "done" /\ ReportsChannelError(res_v))
    /\ (setup = "run" /\ StoppedEarly(res_v) /\ pc_p # "done")
            ~> (pc_p = "done" /\ ReportsChannelError(res_p))

\* the prover rejected a challenge of the wrong length and the verifier
\* then failed in its second recv
C13_Witness ==
    /\ setup = "run"
    /\ res_p = Err("BadChallengeLength")
    /\ pc_v = "done"
    /\ res_v = Err("RecvError")

ReportsError(res, e) == res.tag = "Err" /\ res.val = e

ProverRuns == setup # "drive_verifier" /\ pc_p # "done"
VerifierRuns == setup # "drive_prover" /\ pc_v # "done"

Received(who, variant) ==
    \E i \in 1..Len(trace) : trace[i] = Event(who, "recv", variant)

Sent(who, variant) ==
    \E i \in 1..Len(trace) : trace[i] = Event(who, "send", variant)

IVerifierOver == setup \in {"run", "drive_verifier"} /\ pc_v = "done"

\* C15 as stated: verify being a stub that returns true,
\* IVerifier.blocking_run returns Ok(true) in every run in which it
\* receives ProverMsg::Step1 followed by ProverMsg::Step2, whatever the
\* payloads.
C15_OkTrueAfterBothMessages ==
    (IVerifierOver /\ Received("V", "Step1") /\ Received("V", "Step2"))
        => (res_v.tag = "Ok" /\ res_v.val = TRUE)

\* C15, amended: IVerifier.blocking_run returns Ok(true), whatever the
\* payloads, in every run in which it receives ProverMsg::Step1 followed by
\* ProverMsg::Step2 and its send of VerifierMsg::Step2 succeeds.
C15_OkTrueAfterBothMessagesAndSends ==
    (IVerifierOver /\ Received("V", "Step1") /\ Received("V", "Step2")
        /\ Sent("V", "Step2"))
        => (res_v.tag = "Ok" /\ res_v.val = TRUE)

\* the verifier returned Ok(true) on payloads no prover computed
C15_Witness ==
    /\ setup = "drive_verifier"
    /\ pc_v = "done"
    /\ Received("V", "Step2")
    /\ res_v.tag = "Ok"
    /\ res_v.val = TRUE
    /\ v_in.val.mseeds = <<>>

====
